---- MODULE Spec2Model ----
(***************************************************************************)
(* The statistics cache handle of statistics/handle/handle.go: the        *)
(* copy-on-write snapshot (statsCache), the refresh from mysql.stats_meta  *)
(* (Handle.Update), the lock-free read API (GetPartitionStats), the        *)
(* on-demand loader (LoadNeededHistograms), SetLastUpdateVersion, the      *)
(* writer path (SaveStatsToStorage, SaveMetaToStorage), the resolver       *)
(* (getTableByPhysicalID), Clear and the two mutexes.                      *)
(*                                                                         *)
(* Go maps and *statistics.Table are references: the model keeps a heap of *)
(* tables maps (maps) and a heap of Table objects (tbls). After every step *)
(* the objects nothing holds any more are collected and the others are     *)
(* renumbered in the order in which the handle and the goroutines reach    *)
(* them, so that two states that differ only in the addresses are one.     *)
(***************************************************************************)
EXTENDS Integers, Sequences, FiniteSets, TLC

VARIABLES
    now,        \* physical part (ms) of the newest timestamp handed out by the oracle
    lease,      \* Handle.lease, in nanoseconds
    meta,       \* committed rows of mysql.stats_meta, by table_id
    pend,       \* rows of mysql.stats_meta written by a transaction that has not committed
    hist,       \* committed rows of mysql.stats_histograms and stats_buckets, by table_id
    schemaIdx,  \* index in Schemas of the information schema the domain holds
    muSchema,   \* Handle.mu.schemaVersion and Handle.mu.pid2tid
    maps,       \* heap of statsCache.tables maps: physical ID -> Table reference
    tbls,       \* heap of statistics.Table objects
    cache,      \* Handle.statsCache (the atomic.Value): [tables, version]
    upd,        \* the goroutine running Handle.Update
    rd,         \* the goroutines calling GetPartitionStats
    ld,         \* the goroutine running LoadNeededHistograms
    st,         \* the goroutine calling SetLastUpdateVersion
    needed,     \* statistics.HistogramNeededColumns
    scanned,    \* history: table_ids whose committed stats_meta row a scan of Update returned
    lagOK,      \* history: every commit so far lagged its version by less than 3 leases
    markSet,    \* history: SetLastUpdateVersion moved the version of the snapshot
    overwritten,\* history: a step wrote to a map or a Table of a published snapshot
    calls,      \* number of calls each goroutine has started
    wr,         \* the goroutine calling SaveStatsToStorage or SaveMetaToStorage
    hmu,        \* holder of Handle.mu (the mutex)
    scmu,       \* holder of Handle.statsCache (the mutex)
    res,        \* the calls of getTableByPhysicalID made apart from Update
    dec         \* the calls of columnStatsFromStorage made apart from Update

vars == <<now, lease, meta, pend, hist, schemaIdx, muSchema, maps, tbls, cache,
          upd, rd, ld, st, needed, scanned, lagOK, markSet, overwritten, calls,
          wr, hmu, scmu, res, dec>>

storageVars == <<now, meta, pend, hist, schemaIdx, scanned, lagOK>>
handleVars == <<muSchema, maps, tbls, cache, upd, rd, ld, st, needed, markSet, overwritten>>
writerVars == <<wr, hmu, res, dec>>

-----------------------------------------------------------------------------
(* Bounds of the model *)

\* The oracle hands out timestamps with physical part 1 .. MaxTime.
MaxTime == 3
\* Number of goroutines calling GetPartitionStats.
NumReaders == 1
\* Calls a goroutine starts while the others run.
MaxUpdates == 2
MaxReads == 2
MaxLoads == 1
MaxSets == 1
\* Calls of Update before the two calls that are compared
MaxEarlierUpdates == 1
\* Calls all the goroutines together start where every operation of the handle runs
MaxCalls == 4
\* Calls the goroutines start between them where every state is tested for the
\* steps it enables.
MaxMutexCalls == 3
\* Size of the two heaps.
MaxMapRefs == 6
MaxTblRefs == 8
\* Buckets of a histogram the writer saves
MaxBuckets == 3
\* Largest meta-version of a schema the resolver is called with
MaxSchemaVer == 2
\* uint64 arithmetic wraps; TLC's integers are 32 bits wide, so the wrap is kept
\* at 2^UintBits, above every version of the model.
UintBits == 29

PhysIDs == {7, 9}
ColIDs == {1}
IdxIDs == {1}
Readers == 1 .. NumReaders
\* Values SetLastUpdateVersion is called with, as physical milliseconds.
SetVersionsMs == {2}
\* Handle.lease in nanoseconds: 0, and 2/3 ms (3 leases are 2 ms and 1 ns).
Leases == {0, 666667}

MapRefs == 1 .. MaxMapRefs
TblRefs == 1 .. MaxTblRefs
UintMod == 2 ^ UintBits

-----------------------------------------------------------------------------
(* Timestamps *)

\* oracle.physicalShiftBits
PhysicalShift == 262144
\* time.Millisecond, in nanoseconds
Millisecond == 1000000

\* oracle.ComposeTS: (physical << 18) + logical
ComposeTS(physical, logical) == (physical * PhysicalShift + logical) % UintMod

\* DurationToTS: d.Nanoseconds() / int64(time.Millisecond), logical part 0
DurationToTS(d) == ComposeTS(d \div Millisecond, 0)

\* The look-back offset of Update: DurationToTS(3 * h.Lease())
LookBackOne(l) == DurationToTS(l)
LookBack(l) == DurationToTS(3 * l)

\* uint64 subtraction
USub(a, b) == (a - b) % UintMod

\* lastVersion after lines 121-125 of Update
Since(version, offset) == IF version >= offset THEN USub(version, offset) ELSE 0

\* Line 126: "where version > %d"
InScanInclusive(version, since) == version >= since
InScan(version, since) == version > since

-----------------------------------------------------------------------------
(* The information schema *)

\* Two schemas the domain goes through. Table 7 is a plain table with column 1
\* and index 1; table 5 is partitioned, 9 is its partition, its column 1 is the
\* handle (PKIsHandle and the primary key flag) and it has no index. The second
\* schema has dropped table 7.
Schemas == <<
    [ver |-> 1, tables |-> {5, 7}, parts |-> {<<9, 5>>}],
    [ver |-> 2, tables |-> {5},    parts |-> {<<9, 5>>}] >>

\* model.TableInfo of a table: Columns, Indices, and the columns that are the handle
TableInfo(id) ==
    IF id = 7 THEN [ID |-> 7, Columns |-> {1}, Indices |-> {1}, Handle |-> {}]
              ELSE [ID |-> id, Columns |-> {1}, Indices |-> {}, Handle |-> {1}]

\* buildPartitionID2TableID: the pairs partition ID -> table ID of a schema
buildPartitionID2TableID(is) == is.parts

\* getTableByPhysicalID, lines 181-184: the cache of the partition index
ResolveCacheStale(is, mu) == mu
ResolveCache(is, mu) ==
    IF is.ver # mu.schemaVersion
    THEN [schemaVersion |-> is.ver, pid2tid |-> buildPartitionID2TableID(is)]
    ELSE mu

\* getTableByPhysicalID, lines 185-188: the table ID looked up, 0 when not found
ResolveTable(is, mu, physicalID) ==
    LET hit == {p \in mu.pid2tid : p[1] = physicalID}
        id == IF hit # {} THEN (CHOOSE p \in hit : TRUE)[2] ELSE physicalID
    IN  IF id \in is.tables THEN id ELSE 0

-----------------------------------------------------------------------------
(* Statistics objects *)

NoCol == [ID |-> 0, LastUpdateVersion |-> 0, NDV |-> 0, NullCount |-> 0,
          TotColSize |-> 0, Buckets |-> <<>>, Count |-> 0, IsHandle |-> FALSE,
          CMSketch |-> FALSE]
NoIdx == [ID |-> 0, LastUpdateVersion |-> 0, NDV |-> 0, NullCount |-> 0,
          Buckets |-> <<>>, CMSketch |-> FALSE]
NoTbl == [PhysicalID |-> 0, Pseudo |-> FALSE, Version |-> 0, Count |-> 0,
          ModifyCount |-> 0, Name |-> 0,
          Columns |-> [c \in ColIDs |-> NoCol], Indices |-> [i \in IdxIDs |-> NoIdx]]
NoMap == [p \in PhysIDs |-> -1]
EmptyMap == [p \in PhysIDs |-> 0]

\* The statistics.Table tableStatsFromStorage builds when the cache has no entry
\* (lines 430-438): empty Columns and Indices
NewTable(physicalID) == [NoTbl EXCEPT !.PhysicalID = physicalID]

\* statistics.PseudoTable followed by line 219
PseudoTable(tblInfo, pid) == [NoTbl EXCEPT !.PhysicalID = pid, !.Pseudo = TRUE]

\* statistics.Table.Copy: a new Table with new Columns and Indices maps holding
\* the same entries
TableCopy(t) == t

\* A row of stats_histograms with its rows of stats_buckets; ver = 0: no row
NoHist == [ver |-> 0, ndv |-> 0, null |-> 0, tot |-> 0, deltas |-> <<>>]

RECURSIVE SumCounts(_)
SumCounts(rows) ==
    IF rows = <<>> THEN 0 ELSE rows[1].count + SumCounts(Tail(rows))

\* histogramFromStorage, lines 584-607: the buckets carry the running total of
\* the stored counts
Accumulate(rows) ==
    [i \in 1 .. Len(rows) |->
        [Count |-> SumCounts(SubSeq(rows, 1, i)), Repeat |-> rows[i].repeats]]

\* Histogram.TotalRowCount: the last bucket's count plus the null count
TotalRowCount(buckets, nullCount) ==
    (IF buckets = <<>> THEN 0 ELSE buckets[Len(buckets)].Count) + nullCount

\* columnCountFromStorage: sum(count) of the stored buckets, 0 for SQL NULL
columnCountFromStorage(h) == SumCounts(h.deltas)

\* A test that leaves out col.Len() == 0
NotNeedLoadAnyColumn(l, isHandle, col, histVer, loadAll) ==
    l > 0 /\ ~isHandle /\ (col.ID = 0 \/ col.LastUpdateVersion < histVer) /\ ~loadAll

\* columnStatsFromStorage, lines 368-371
NotNeedLoad(l, isHandle, col, histVer, loadAll) ==
    /\ l > 0
    /\ ~isHandle
    /\ (col.ID = 0 \/ (Len(col.Buckets) = 0 /\ col.LastUpdateVersion < histVer))
    /\ ~loadAll

\* columnStatsFromStorage, line 387
NeedFullLoad(col, histVer, loadAll) ==
    col.ID = 0 \/ col.LastUpdateVersion < histVer \/ loadAll

\* columnStatsFromStorage: the entry left in table.Columns[histID] by the row h
\* of stats_histograms (is_index = 0)
columnStatsFromStorage(h, histID, table, tableInfo, loadAll, l) ==
    LET col == table.Columns[histID]
        isHandle == histID \in tableInfo.Handle
    IN  IF histID \notin tableInfo.Columns THEN col
        ELSE IF NotNeedLoad(l, isHandle, col, h.ver, loadAll)
        THEN [ID |-> histID, LastUpdateVersion |-> h.ver, NDV |-> h.ndv,
              NullCount |-> h.null, TotColSize |-> h.tot, Buckets |-> <<>>,
              Count |-> columnCountFromStorage(h) + h.null,
              IsHandle |-> isHandle, CMSketch |-> FALSE]
        ELSE IF NeedFullLoad(col, h.ver, loadAll)
        THEN [ID |-> histID, LastUpdateVersion |-> h.ver, NDV |-> h.ndv,
              NullCount |-> h.null, TotColSize |-> h.tot,
              Buckets |-> Accumulate(h.deltas),
              Count |-> TotalRowCount(Accumulate(h.deltas), h.null),
              IsHandle |-> isHandle, CMSketch |-> TRUE]
        ELSE IF col.TotColSize # h.tot THEN [col EXCEPT !.TotColSize = h.tot]
        ELSE col

\* Whether columnStatsFromStorage queries the storage for the row (lines 373,
\* 388, 392), so that it can fail
ColumnReads(h, histID, table, tableInfo, loadAll, l) ==
    LET col == table.Columns[histID]
    IN  /\ histID \in tableInfo.Columns
        /\ \/ NotNeedLoad(l, histID \in tableInfo.Handle, col, h.ver, loadAll)
           \/ NeedFullLoad(col, h.ver, loadAll)

\* indexStatsFromStorage: the entry left in table.Indices[histID] by the row h
\* of stats_histograms (is_index = 1)
indexStatsFromStorage(h, histID, table, tableInfo) ==
    LET idx == table.Indices[histID]
    IN  IF histID \in tableInfo.Indices
           /\ (idx.ID = 0 \/ idx.LastUpdateVersion < h.ver)
        THEN [ID |-> histID, LastUpdateVersion |-> h.ver, NDV |-> h.ndv,
              NullCount |-> h.null, Buckets |-> Accumulate(h.deltas),
              CMSketch |-> TRUE]
        ELSE idx

IndexReads(h, histID, table, tableInfo) ==
    /\ histID \in tableInfo.Indices
    /\ (table.Indices[histID].ID = 0 \/ table.Indices[histID].LastUpdateVersion < h.ver)

\* Whether the stats_histograms query of tableStatsFromStorage returns rows
\* (line 452, len(rows) == 0)
HistRowsAlways(h) == TRUE
HasHistRows(h) == \E c \in ColIDs : h.col[c].ver # 0 \/ \E i \in IdxIDs : h.idx[i].ver # 0

\* tableStatsFromStorage, lines 443-465, when every query succeeds and returns
\* rows: the Table after line 443 and the loop over the rows. start is the Table
\* the function works on (the new one or the copy of the cached one).
tableStatsFromStorage(start, tableInfo, loadAll, l, h) ==
    LET t0 == [start EXCEPT !.Pseudo = FALSE]
        t1 == [t0 EXCEPT !.Columns = [c \in ColIDs |->
                    IF h.col[c].ver # 0
                    THEN columnStatsFromStorage(h.col[c], c, t0, tableInfo, loadAll, l)
                    ELSE t0.Columns[c]]]
    IN  [t1 EXCEPT !.Indices = [i \in IdxIDs |->
                    IF h.idx[i].ver # 0
                    THEN indexStatsFromStorage(h.idx[i], i, t1, tableInfo)
                    ELSE t1.Indices[i]]]

\* Whether one of the rows makes tableStatsFromStorage read buckets, a sketch or
\* a column count
NestedReads(start, tableInfo, loadAll, l, h) ==
    \/ \E c \in ColIDs : h.col[c].ver # 0 /\ ColumnReads(h.col[c], c, start, tableInfo, loadAll, l)
    \/ \E i \in IdxIDs : h.idx[i].ver # 0 /\ IndexReads(h.idx[i], i, start, tableInfo)

-----------------------------------------------------------------------------
(* The storage *)

NoRow == [version |-> 0, count |-> 0, modify_count |-> 0]
NoPend == [version |-> 0, kind |-> "none"]
NoHists == [col |-> [c \in ColIDs |-> NoHist], idx |-> [i \in IdxIDs |-> NoHist]]

\* What the writers store: a histogram of column 1 through SaveStatsToStorage
\* with count >= 0, and a row of stats_meta through SaveMetaToStorage
WriteKinds == {"column", "meta"}
AnalyzeHist(version) ==
    [ver |-> version, ndv |-> 2, null |-> 1, tot |-> 8,
     deltas |-> <<[count |-> 10, repeats |-> 1], [count |-> 15, repeats |-> 2]>>]

\* The row of stats_meta a transaction leaves: lines 490 and 541
MetaWritten(version, kind) ==
    IF kind = "meta"
    THEN [version |-> version, count |-> 30, modify_count |-> 5]
    ELSE [version |-> version, count |-> 26, modify_count |-> 0]

\* The rows of stats_histograms and stats_buckets a transaction leaves: lines 498-517
HistWritten(h, version, kind) ==
    IF kind = "column" THEN [h EXCEPT !.col[1] = AnalyzeHist(version)]
    ELSE IF kind = "index" THEN [h EXCEPT !.idx[1] = AnalyzeHist(version)]
    ELSE h

\* A transaction of some server begins: txn.StartTS() is the next timestamp
TxnBegin(p, kind) ==
    /\ now < MaxTime
    /\ pend[p].version = 0
    /\ now' = now + 1
    /\ pend' = [pend EXCEPT ![p] = [version |-> ComposeTS(now + 1, 0), kind |-> kind]]
    /\ UNCHANGED <<lease, writerVars, scmu, meta, hist, schemaIdx, scanned, lagOK, handleVars>>

\* The transaction commits: its rows become visible to the queries
TxnCommit(p) ==
    /\ pend[p].version # 0
    /\ meta' = [meta EXCEPT ![p] = MetaWritten(pend[p].version, pend[p].kind)]
    /\ hist' = [hist EXCEPT ![p] = HistWritten(hist[p], pend[p].version, pend[p].kind)]
    /\ pend' = [pend EXCEPT ![p] = NoPend]
    /\ scanned' = scanned \ {p}
    /\ lagOK' = (lagOK /\ ComposeTS(now, 0) - pend[p].version < DurationToTS(3 * lease))
    /\ UNCHANGED <<now, lease, writerVars, scmu, schemaIdx, handleVars>>

\* A DDL statement: the domain loads the next information schema
SchemaChange ==
    /\ schemaIdx < Len(Schemas)
    /\ schemaIdx' = schemaIdx + 1
    /\ UNCHANGED <<now, lease, writerVars, scmu, meta, pend, hist, scanned, lagOK, handleVars>>

\* The committed rows of stats_meta with version > since
MetaRows(since) ==
    {[version |-> meta[p].version, table_id |-> p, modify_count |-> meta[p].modify_count,
      count |-> meta[p].count] : p \in {q \in PhysIDs : meta[q].version # 0
                                                        /\ InScan(meta[q].version, since)}}

\* "order by version"
RECURSIVE OrderByVersion(_)
OrderByVersion(rows) ==
    IF rows = {} THEN <<>>
    ELSE LET first == CHOOSE r \in rows : \A o \in rows :
                          r.version < o.version
                          \/ (r.version = o.version /\ r.table_id <= o.table_id)
         IN  <<first>> \o OrderByVersion(rows \ {first})

\* Lines 126-127: the stats_meta query of Update
ScanMeta(since) == OrderByVersion(MetaRows(since))

-----------------------------------------------------------------------------
(* The mutexes *)

\* Nobody holds the mutex
Free == <<"none", 0>>

\* h.statsCache.Lock() of updateStatsCache (line 227), by goroutine g: the caller
\* enters with the mutex free or already its own
ScLockedBy(g) == scmu \in {Free, g}

-----------------------------------------------------------------------------
(* The heaps and the snapshot *)

NoCache == [tables |-> 0, version |-> 0]

Range(f) == {f[x] : x \in DOMAIN f}
Lowest(S) == CHOOSE x \in S : \A y \in S : x <= y

RECURSIVE SeqOf(_)
SeqOf(S) == IF S = {} THEN <<>> ELSE <<Lowest(S)>> \o SeqOf(S \ {Lowest(S)})

\* seq without its zeros and repetitions
RECURSIVE Distinct(_, _)
Distinct(seq, acc) ==
    IF seq = <<>> THEN acc
    ELSE IF Head(seq) = 0 \/ Head(seq) \in Range(acc) THEN Distinct(Tail(seq), acc)
    ELSE Distinct(Tail(seq), Append(acc, Head(seq)))

RECURSIVE Flatten(_)
Flatten(seqs) == IF seqs = <<>> THEN <<>> ELSE Head(seqs) \o Flatten(Tail(seqs))

Rank(order, x) == IF x = 0 THEN 0 ELSE CHOOSE i \in 1 .. Len(order) : order[i] = x

\* The maps the handle (c) and the goroutines (u, r, l, s) hold, in a fixed order
MapOrder(c, u, r, l, s) ==
    Distinct(<<c.tables, u.oldCache.tables, l.sc.tables, s.sc.tables>>
                 \o [i \in 1 .. NumReaders |-> r[i].sc.tables], <<>>)

\* The Table objects these maps hold and the ones local variables hold
TblOrder(mp, mo, u, r, l) ==
    Distinct(Flatten([i \in 1 .. Len(mo) |-> [j \in 1 .. Len(SeqOf(PhysIDs)) |->
                          mp[mo[i]][SeqOf(PhysIDs)[j]]]])
                 \o u.tables \o <<l.tbl>> \o [i \in 1 .. NumReaders |-> r[i].ret], <<>>)

\* The maps of the snapshots that are published and still held. Every map a
\* state holds is one: a map reaches a goroutine only through statsCache.Load
MapRoots == Range(MapOrder(cache, upd, rd, ld, st))

FreeMaps == {m \in MapRefs : maps[m] = NoMap}
FreeTbls == {t \in TblRefs : tbls[t] = NoTbl}

\* A step that leaves the heaps rawMaps and rawTbls wrote to a published
\* snapshot when it changed a held map or a Table such a map holds
Overwrites(rawMaps, rawTbls) ==
    \E m \in MapRoots :
        \/ rawMaps[m] # maps[m]
        \/ \E p \in PhysIDs : maps[m][p] # 0 /\ rawTbls[maps[m][p]] # tbls[maps[m][p]]

\* The state of the handle after a step: the snapshot c, the goroutines u, r, l
\* and s, and the heaps as the step wrote them, collected and renumbered
SetHandle(rawMaps, rawTbls, c, u, r, l, s) ==
    \E mo \in {MapOrder(c, u, r, l, s)} : \E to \in {TblOrder(rawMaps, mo, u, r, l)} :
        /\ cache' = [c EXCEPT !.tables = Rank(mo, @)]
        /\ upd' = [u EXCEPT !.oldCache.tables = Rank(mo, @),
                            !.tables = [i \in 1 .. Len(u.tables) |-> Rank(to, u.tables[i])]]
        /\ rd' = [x \in Readers |-> [r[x] EXCEPT !.sc.tables = Rank(mo, @),
                                                 !.ret = Rank(to, @)]]
        /\ ld' = [l EXCEPT !.sc.tables = Rank(mo, @), !.tbl = Rank(to, @)]
        /\ st' = [s EXCEPT !.sc.tables = Rank(mo, @)]
        /\ maps' = [i \in MapRefs |->
                       IF i <= Len(mo)
                       THEN [p \in PhysIDs |-> Rank(to, rawMaps[mo[i]][p])]
                       ELSE NoMap]
        /\ tbls' = [j \in TblRefs |-> IF j <= Len(to) THEN rawTbls[to[j]] ELSE NoTbl]
        /\ overwritten' = (overwritten \/ Overwrites(rawMaps, rawTbls))

\* statsCache.copy, lines 236-240: the map the new statsCache writes to, given
\* the receiver's map and an unused one
CopyTarget(scTables, fresh) == fresh

\* statsCache.update, lines 247-253: the contents of newCache.tables. tables is
\* a sequence of Table references, heap the Table heap, deletedIDs a set
RECURSIVE PutTables(_, _, _)
PutTables(m, tables, heap) ==
    IF tables = <<>> THEN m
    ELSE PutTables([m EXCEPT ![heap[Head(tables)].PhysicalID] = Head(tables)],
                   Tail(tables), heap)

CacheUpdateKeep(old, tables, deletedIDs, heap) == PutTables(old, tables, heap)
CacheUpdateDrop(old, tables, deletedIDs, heap) ==
    [p \in PhysIDs |-> IF p \in deletedIDs THEN 0 ELSE old[p]]
CacheUpdate(old, tables, deletedIDs, heap) ==
    LET put == PutTables(old, tables, heap)
    IN  [p \in PhysIDs |-> IF p \in deletedIDs THEN 0 ELSE put[p]]

\* updateStatsCache, line 229
InstallsAlways(oldCache, newCache) == TRUE
Installs(oldCache, newCache) == oldCache.version <= newCache.version

\* updateStatsCache: the value of h.statsCache after the call
updateStatsCache(newCache) == IF Installs(cache, newCache) THEN newCache ELSE cache

\* The contents of a snapshot: its version and the Table of every physical ID
\* (NoTbl: no entry)
Contents(c, mp, tb) ==
    [version |-> c.version,
     tables |-> [p \in PhysIDs |-> IF mp[c.tables][p] = 0 THEN NoTbl ELSE tb[mp[c.tables][p]]]]
Snapshot == Contents(cache, maps, tbls)

-----------------------------------------------------------------------------
(* Handle.Update *)

\* log is history: for every row of this call that the loop has processed, the
\* row, the table it resolved to (0: none), whether stats_histograms held rows
\* of it, and the read that failed ("none", "query": the stats_histograms
\* query, "nested": a read of buckets, sketch or column count).
\* qerr: the stats_meta query failed
UpdIdle(ret, qerr) ==
    [pc |-> "idle", is |-> 1, oldCache |-> NoCache, lastVersion |-> 0, rows |-> <<>>,
     tables |-> <<>>, deleted |-> {}, log |-> <<>>, ret |-> ret, qerr |-> qerr]

\* Lines 128-130: whether Update returns on the error of the stats_meta query
IgnoresQueryError(err) == FALSE
AbortsOnQueryError(err) == err

\* Lines 113-133: load the snapshot, compute the look-back and query stats_meta
UpdateStart ==
    /\ upd.pc = "idle"
    /\ \E err \in BOOLEAN :
        LET since == Since(cache.version, LookBack(lease))
            rows == IF err THEN <<>> ELSE ScanMeta(since)
            u == IF AbortsOnQueryError(err)
                 THEN UpdIdle("err", TRUE)
                 ELSE [pc |-> "run", is |-> schemaIdx, oldCache |-> cache,
                       lastVersion |-> since, rows |-> rows, tables |-> <<>>,
                       deleted |-> {}, log |-> <<>>, ret |-> "none", qerr |-> err]
        IN  /\ SetHandle(maps, tbls, cache, u, rd, ld, st)
            /\ scanned' = scanned \cup {rows[i].table_id : i \in 1 .. Len(rows)}
    /\ UNCHANGED <<now, lease, writerVars, scmu, meta, pend, hist, schemaIdx, muSchema,
                   needed, lagOK,
                   markSet>>

\* tableStatsFromStorage, lines 426-442: the object the function writes to, given
\* the reference of the cached Table (0: no entry) and an unused one
TsfsNoCopy(cached, fresh) == IF cached = 0 THEN fresh ELSE cached
TsfsTarget(cached, fresh) == fresh

\* Lines 159-162 of Update
StampVersionOnly(tbl, row, tid) == [tbl EXCEPT !.Version = row.version, !.Name = tid]
Stamp(tbl, row, tid) ==
    [tbl EXCEPT !.Version = row.version, !.Count = row.count,
                !.ModifyCount = row.modify_count, !.Name = tid]

\* What one iteration of the loop of Update comes to. tid: the table the
\* physical ID resolved to (0: none), qerr: the stats_histograms query failed,
\* nerr: a nested read fails if there is one
RowOutcome(tid, qerr, nerr, start, h, l) ==
    IF tid = 0 THEN "unresolved"
    ELSE IF qerr THEN "histErr"
    ELSE IF ~HasHistRows(h) THEN "nohist"
    ELSE IF nerr /\ NestedReads(start, TableInfo(tid), FALSE, l, h) THEN "nestedErr"
    ELSE "ok"

\* Lines 143-158 with line 452: the outcomes that append to deletedTableIDs
Deletes(outcome) == outcome \in {"unresolved", "histErr", "nohist"}

\* Lines 134-164: one iteration of the loop over the rows
UpdateRow ==
    /\ upd.pc = "run"
    /\ upd.rows # <<>>
    /\ hmu = "none"
    /\ FreeTbls # {}
    /\ LET row == Head(upd.rows)
           pid == row.table_id
           is == Schemas[upd.is]
           mu == ResolveCache(is, muSchema)
           tid == ResolveTable(is, mu, pid)
           cached == maps[cache.tables][pid]
           target == TsfsTarget(cached, Lowest(FreeTbls))
           start == IF cached = 0 THEN NewTable(pid) ELSE TableCopy(tbls[cached])
           h == hist[pid]
       IN  /\ muSchema' = mu
           /\ \E qerr \in BOOLEAN, nerr \in BOOLEAN :
                LET outcome == RowOutcome(tid, qerr, nerr, start, h, lease)
                    tbl == IF outcome = "ok"
                           THEN Stamp(tableStatsFromStorage(start, TableInfo(tid), FALSE,
                                                            lease, h), row, tid)
                           ELSE [start EXCEPT !.Pseudo = FALSE]
                    rawTbls == IF outcome = "unresolved" THEN tbls
                               ELSE [tbls EXCEPT ![target] = tbl]
                    u == [upd EXCEPT
                            !.lastVersion = row.version,
                            !.rows = Tail(upd.rows),
                            !.tables = IF outcome = "ok" THEN Append(@, target) ELSE @,
                            !.deleted = IF Deletes(outcome) THEN @ \cup {pid} ELSE @,
                            !.log = Append(@, [row |-> row, tid |-> tid,
                                               hists |-> h # NoHists,
                                               err |-> IF outcome = "histErr" THEN "query"
                                                       ELSE IF outcome = "nestedErr"
                                                       THEN "nested" ELSE "none"])]
                IN  SetHandle(maps, rawTbls, cache, u, rd, ld, st)
    /\ UNCHANGED <<now, lease, writerVars, scmu, meta, pend, hist, schemaIdx, needed, scanned,
                   lagOK, markSet>>

\* Lines 165-166: build the new snapshot from oldCache and publish it
UpdatePublish ==
    /\ upd.pc = "run"
    /\ upd.rows = <<>>
    /\ ScLockedBy(<<"upd", 0>>)
    /\ scmu' = Free
    /\ FreeMaps # {}
    /\ LET target == CopyTarget(upd.oldCache.tables, Lowest(FreeMaps))
           newCache == [tables |-> target, version |-> upd.lastVersion]
           rawMaps == [maps EXCEPT ![target] =
                          CacheUpdate(maps[upd.oldCache.tables], upd.tables, upd.deleted, tbls)]
       IN  SetHandle(rawMaps, tbls, updateStatsCache(newCache),
                     UpdIdle("nil", upd.qerr), rd, ld, st)
    /\ UNCHANGED <<now, lease, writerVars, meta, pend, hist, schemaIdx, muSchema, needed,
                   scanned,
                   lagOK, markSet>>

-----------------------------------------------------------------------------
(* SetLastUpdateVersion *)

StIdle == [pc |-> "idle", sc |-> NoCache, v |-> 0]

\* Line 301
SetLoad(v) ==
    /\ st.pc = "idle"
    /\ SetHandle(maps, tbls, cache, upd, rd, ld, [pc |-> "publish", sc |-> cache, v |-> v])
    /\ UNCHANGED <<storageVars, lease, writerVars, scmu, muSchema, needed, markSet>>

\* Line 302
SetPublish ==
    /\ st.pc = "publish"
    /\ ScLockedBy(<<"st", 0>>)
    /\ scmu' = Free
    /\ FreeMaps # {}
    /\ LET target == CopyTarget(st.sc.tables, Lowest(FreeMaps))
           newCache == [tables |-> target, version |-> st.v]
           rawMaps == [maps EXCEPT ![target] = CacheUpdate(maps[st.sc.tables], <<>>, {}, tbls)]
       IN  /\ SetHandle(rawMaps, tbls, updateStatsCache(newCache), upd, rd, ld, StIdle)
           /\ markSet' = (markSet \/ updateStatsCache(newCache).version # cache.version)
    /\ UNCHANGED <<storageVars, lease, writerVars, muSchema, needed>>

\* Lines 300-303 as one step: the call of a caller that runs between the calls
\* of the others
SetLastUpdateVersion(v) ==
    /\ st.pc = "idle"
    /\ ScLockedBy(<<"st", 0>>)
    /\ scmu' = Free
    /\ FreeMaps # {}
    /\ LET target == CopyTarget(cache.tables, Lowest(FreeMaps))
           newCache == [tables |-> target, version |-> v]
           rawMaps == [maps EXCEPT ![target] = CacheUpdate(maps[cache.tables], <<>>, {}, tbls)]
       IN  /\ SetHandle(rawMaps, tbls, updateStatsCache(newCache), upd, rd, ld, StIdle)
           /\ markSet' = (markSet \/ updateStatsCache(newCache).version # cache.version)
    /\ UNCHANGED <<storageVars, lease, writerVars, muSchema, needed>>

-----------------------------------------------------------------------------
(* GetPartitionStats *)

RdIdle(pid, ret) == [pc |-> "idle", pid |-> pid, sc |-> NoCache, ret |-> ret]

\* Lines 215-217 and 223: load the snapshot; return the entry when there is one
GetLoad(r, pid) ==
    /\ rd[r].pc = "idle"
    /\ LET tbl == maps[cache.tables][pid]
           nrd == [rd EXCEPT ![r] = IF tbl # 0 THEN RdIdle(pid, tbl)
                                    ELSE [pc |-> "miss", pid |-> pid, sc |-> cache,
                                          ret |-> rd[r].ret]]
       IN  SetHandle(maps, tbls, cache, upd, nrd, ld, st)
    /\ UNCHANGED <<storageVars, lease, writerVars, scmu, muSchema, needed, markSet>>

\* LastUpdateVersion, line 296: the version of the loaded snapshot, which the
\* record of the reader keeps as the version of sc
LastUpdateVersion(r) ==
    /\ rd[r].pc = "idle"
    /\ SetHandle(maps, tbls, cache, upd,
                 [rd EXCEPT ![r] = [RdIdle(0, 0) EXCEPT !.sc.version = cache.version]],
                 ld, st)
    /\ UNCHANGED <<storageVars, lease, writerVars, scmu, muSchema, needed, markSet>>

\* Lines 218-221: publish the pseudo table at the version of the loaded snapshot
GetPublish(r) ==
    /\ rd[r].pc = "miss"
    /\ ScLockedBy(<<"rd", r>>)
    /\ scmu' = Free
    /\ FreeMaps # {}
    /\ FreeTbls # {}
    /\ LET tbl == Lowest(FreeTbls)
           rawTbls == [tbls EXCEPT ![tbl] = PseudoTable(TableInfo(rd[r].pid), rd[r].pid)]
           target == CopyTarget(rd[r].sc.tables, Lowest(FreeMaps))
           newCache == [tables |-> target, version |-> rd[r].sc.version]
           rawMaps == [maps EXCEPT ![target] =
                          CacheUpdate(maps[rd[r].sc.tables], <<tbl>>, {}, rawTbls)]
       IN  SetHandle(rawMaps, rawTbls, updateStatsCache(newCache), upd,
                     [rd EXCEPT ![r] = RdIdle(rd[r].pid, tbl)], ld, st)
    /\ UNCHANGED <<storageVars, lease, writerVars, muSchema, needed, markSet>>

-----------------------------------------------------------------------------
(* LoadNeededHistograms *)

LdIdle(ret) == [pc |-> "idle", cols |-> {}, col |-> <<0, 0>>, sc |-> NoCache, tbl |-> 0,
                ret |-> ret]

\* The optimizer meets a column without buckets: HistogramNeededColumns.Insert
NeedColumn(p, c) ==
    /\ <<p, c>> \notin needed
    /\ needed' = needed \cup {<<p, c>>}
    /\ UNCHANGED <<storageVars, lease, writerVars, scmu, muSchema, maps, tbls, cache, upd, rd,
                   ld, st, markSet,
                   overwritten>>

\* Line 259
LoadStart ==
    /\ ld.pc = "idle"
    /\ SetHandle(maps, tbls, cache, upd, rd,
                 [LdIdle("none") EXCEPT !.pc = "loop", !.cols = needed], st)
    /\ UNCHANGED <<storageVars, lease, writerVars, scmu, muSchema, needed, markSet>>

\* Lines 261-287: one iteration of the loop, up to the construction of the column
LoadColumn(col) ==
    /\ ld.pc = "loop"
    /\ col \in ld.cols
    /\ FreeTbls # {}
    /\ LET ref == maps[cache.tables][col[1]]
           tbl == TableCopy(tbls[ref])
           c == tbl.Columns[col[2]]
           h == hist[col[1]].col[col[2]]
           hg == Accumulate(h.deltas)
           full == [ID |-> c.ID, LastUpdateVersion |-> c.LastUpdateVersion, NDV |-> c.NDV,
                    NullCount |-> c.NullCount, TotColSize |-> c.TotColSize,
                    Buckets |-> hg, Count |-> TotalRowCount(hg, c.NullCount),
                    IsHandle |-> c.IsHandle, CMSketch |-> h.ver # 0]
           fresh == Lowest(FreeTbls)
           skip == [ld EXCEPT !.cols = @ \ {col}]
       IN  IF ref = 0
           THEN /\ SetHandle(maps, tbls, cache, upd, rd, skip, st)
                /\ UNCHANGED needed
           ELSE IF c.ID = 0 \/ Len(c.Buckets) > 0
           THEN /\ SetHandle(maps, tbls, cache, upd, rd, skip, st)
                /\ needed' = needed \ {col}
           ELSE \E err \in BOOLEAN :
                /\ UNCHANGED needed
                /\ IF err
                   THEN SetHandle(maps, tbls, cache, upd, rd, LdIdle("err"), st)
                   ELSE SetHandle(maps,
                                  [tbls EXCEPT ![fresh] = [tbl EXCEPT !.Columns[col[2]] = full]],
                                  cache, upd, rd,
                                  [ld EXCEPT !.pc = "publish", !.col = col, !.sc = cache,
                                             !.tbl = fresh], st)
    /\ UNCHANGED <<storageVars, lease, writerVars, scmu, muSchema, markSet>>

\* Lines 288-289
LoadPublish ==
    /\ ld.pc = "publish"
    /\ ScLockedBy(<<"ld", 0>>)
    /\ scmu' = Free
    /\ FreeMaps # {}
    /\ LET target == CopyTarget(ld.sc.tables, Lowest(FreeMaps))
           newCache == [tables |-> target, version |-> ld.sc.version]
           rawMaps == [maps EXCEPT ![target] =
                          CacheUpdate(maps[ld.sc.tables], <<ld.tbl>>, {}, tbls)]
       IN  /\ SetHandle(rawMaps, tbls, updateStatsCache(newCache), upd, rd,
                        [ld EXCEPT !.pc = "loop", !.cols = @ \ {ld.col}, !.col = <<0, 0>>,
                                   !.sc = NoCache, !.tbl = 0], st)
           /\ needed' = needed \ {ld.col}
    /\ UNCHANGED <<storageVars, lease, writerVars, muSchema, markSet>>

\* Line 291
LoadReturn ==
    /\ ld.pc = "loop"
    /\ ld.cols = {}
    /\ SetHandle(maps, tbls, cache, upd, rd, LdIdle("nil"), st)
    /\ UNCHANGED <<storageVars, lease, writerVars, scmu, muSchema, needed, markSet>>

-----------------------------------------------------------------------------
(* SaveStatsToStorage and SaveMetaToStorage *)

\* A statistics.Histogram as the writer gets it: the buckets carry cumulative
\* counts
NoHg == [ID |-> 0, NDV |-> 0, NullCount |-> 0, TotColSize |-> 0, Buckets |-> <<>>]

\* The rows of the table the transaction has written, before it commits
NoBuf == [meta |-> NoRow, hist |-> NoHist]

\* The writer between two calls. log: the statements the last call executed,
\* ret: what it returned, committed: its COMMIT succeeded, loaded: what
\* histogramFromStorage read back since
WrIdle ==
    [pc |-> "idle", fn |-> "none", tableID |-> 0, count |-> 0, modifyCount |-> 0,
     hg |-> NoHg, version |-> 0, sqls |-> <<>>, buf |-> NoBuf, err |-> "none",
     log |-> <<>>, ret |-> "none", committed |-> FALSE,
     loaded |-> [done |-> FALSE, Buckets |-> <<>>]]

\* Lines 503-506: the count stored for bucket i (1-based here)
BucketCumulative(buckets, i) == buckets[i].Count
BucketDelta(buckets, i) ==
    buckets[i].Count - (IF i > 1 THEN buckets[i - 1].Count ELSE 0)

\* Lines 487-518: the statements of SaveStatsToStorage
StatsSQLs(count, hg) ==
    <<[op |-> IF count >= 0 THEN "replace_meta3" ELSE "update_meta", id |-> 0,
       a |-> count, b |-> 0],
      [op |-> "replace_hist", id |-> hg.ID, a |-> 0, b |-> 0],
      [op |-> "delete_buckets", id |-> hg.ID, a |-> 0, b |-> 0]>>
    \o [i \in 1 .. Len(hg.Buckets) |->
          [op |-> "insert_bucket", id |-> i - 1, a |-> BucketDelta(hg.Buckets, i),
           b |-> hg.Buckets[i].Repeat]]

\* Line 541: the statement of SaveMetaToStorage
MetaSQLs(count, modifyCount) ==
    <<[op |-> "replace_meta4", id |-> 0, a |-> count, b |-> modifyCount]>>

\* What a statement does to the rows of the table inside the transaction.
\* replace into stats_meta without modify_count leaves the column's default, 0;
\* the update changes the row only if there is one; the buckets are kept in
\* bucket_id order
Execute(buf, q, w) ==
    IF q.op = "replace_meta3"
    THEN [buf EXCEPT !.meta = [version |-> w.version, count |-> q.a, modify_count |-> 0]]
    ELSE IF q.op = "replace_meta4"
    THEN [buf EXCEPT !.meta = [version |-> w.version, count |-> q.a, modify_count |-> q.b]]
    ELSE IF q.op = "update_meta"
    THEN IF buf.meta.version = 0 THEN buf ELSE [buf EXCEPT !.meta.version = w.version]
    ELSE IF q.op = "replace_hist"
    THEN [buf EXCEPT !.hist = [ver |-> w.version, ndv |-> w.hg.NDV, null |-> w.hg.NullCount,
                               tot |-> w.hg.TotColSize, deltas |-> buf.hist.deltas]]
    ELSE IF q.op = "delete_buckets"
    THEN [buf EXCEPT !.hist.deltas = <<>>]
    ELSE [buf EXCEPT !.hist.deltas =
              [j \in 1 .. q.id + 1 |->
                  IF j = q.id + 1 THEN [count |-> q.a, repeats |-> q.b]
                  ELSE IF j <= Len(buf.hist.deltas) THEN buf.hist.deltas[j]
                  ELSE [count |-> 0, repeats |-> 0]]]

\* What can fail between BEGIN and execSQLs: h.mu.ctx.Txn (lines 481, 535),
\* EncodeCMSketch (line 494), ConvertTo of a bound (lines 508, 513)
PrepareFailures(w) ==
    IF w.fn = "meta" THEN {"none", "txn"}
    ELSE {"none", "txn", "encode"} \cup (IF w.hg.Buckets # <<>> THEN {"convert"} ELSE {})

\* Lines 470-477 and 524-531: take h.mu and execute BEGIN; on its error return
\* (the deferred Unlock releases h.mu)
SaveBegin(fn, tableID, count, modifyCount, hg) ==
    /\ wr.pc = "idle"
    /\ hmu = "none"
    /\ now < MaxTime
    /\ \E ok \in BOOLEAN :
          LET w == [WrIdle EXCEPT !.fn = fn, !.tableID = tableID, !.count = count,
                                  !.modifyCount = modifyCount, !.hg = hg,
                                  !.log = <<[stmt |-> "begin", ok |-> ok]>>]
          IN  IF ok THEN wr' = [w EXCEPT !.pc = "begun"] /\ hmu' = "save"
                    ELSE wr' = [w EXCEPT !.ret = "begin"] /\ hmu' = "none"
    /\ UNCHANGED <<storageVars, lease, handleVars, scmu, res, dec>>

\* Lines 481-518 and 535-541: the transaction and its start timestamp, then the
\* statements, none of which is executed yet
SavePrepare ==
    /\ wr.pc = "begun"
    /\ \E fail \in PrepareFailures(wr) :
          IF fail = "txn"
          THEN /\ wr' = [wr EXCEPT !.pc = "finish", !.err = fail]
               /\ UNCHANGED now
          ELSE /\ now' = now + 1
               /\ wr' = IF fail # "none"
                        THEN [wr EXCEPT !.pc = "finish", !.err = fail,
                                        !.version = ComposeTS(now + 1, 0)]
                        ELSE [wr EXCEPT !.pc = "exec",
                                        !.version = ComposeTS(now + 1, 0),
                                        !.sqls = IF wr.fn = "meta"
                                                 THEN MetaSQLs(wr.count, wr.modifyCount)
                                                 ELSE StatsSQLs(wr.count, wr.hg),
                                        !.buf = [meta |-> meta[wr.tableID],
                                                 hist |-> hist[wr.tableID].col[1]]]
    /\ UNCHANGED <<lease, meta, pend, hist, schemaIdx, scanned, lagOK, handleVars, hmu, scmu,
                   res, dec>>

\* execSQLs, lines 557-565: where the loop goes after a statement
execSQLsNext(rest, failed) == IF failed \/ rest = <<>> THEN "finish" ELSE "exec"

\* Lines 519 and 542 with execSQLs: execute the next statement
SaveExec ==
    /\ wr.pc = "exec"
    /\ \E ok \in BOOLEAN :
          wr' = [wr EXCEPT !.buf = IF ok THEN Execute(wr.buf, Head(wr.sqls), wr) ELSE @,
                           !.sqls = Tail(@),
                           !.err = IF ok THEN @ ELSE "sql",
                           !.log = Append(@, [stmt |-> "data", ok |-> ok]),
                           !.pc = execSQLsNext(Tail(wr.sqls), ~ok)]
    /\ UNCHANGED <<storageVars, lease, handleVars, hmu, scmu, res, dec>>

\* finishTransaction, line 548: COMMIT when the error is nil
CommitsAlways(err) == TRUE
Commits(err) == err = "none"

\* The deferred finishTransaction (lines 547-555) and Unlock: COMMIT or
\* ROLLBACK, and the error returned. A COMMIT that succeeds makes the rows of
\* the transaction the committed ones
SaveFinish ==
    /\ wr.pc = "finish"
    /\ \E ok \in BOOLEAN :
          LET applied == Commits(wr.err) /\ ok
              ret == IF wr.err # "none" THEN wr.err ELSE IF ok THEN "nil" ELSE "commit"
          IN  /\ wr' = [WrIdle EXCEPT
                           !.fn = wr.fn, !.tableID = wr.tableID, !.hg = wr.hg,
                           !.log = Append(wr.log,
                                          [stmt |-> IF Commits(wr.err) THEN "commit"
                                                    ELSE "rollback", ok |-> ok]),
                           !.ret = ret, !.committed = applied]
              /\ meta' = IF applied THEN [meta EXCEPT ![wr.tableID] = wr.buf.meta] ELSE meta
              /\ hist' = IF applied THEN [hist EXCEPT ![wr.tableID].col[1] = wr.buf.hist]
                         ELSE hist
              /\ scanned' = IF applied THEN scanned \ {wr.tableID} ELSE scanned
              /\ lagOK' = IF applied
                          THEN lagOK /\ ComposeTS(now, 0) - wr.version < DurationToTS(3 * lease)
                          ELSE lagOK
    /\ hmu' = "none"
    /\ UNCHANGED <<now, lease, pend, schemaIdx, handleVars, scmu, res, dec>>

\* histogramFromStorage, lines 567-610: the buckets rebuilt from the committed
\* rows of stats_buckets of a column, read in bucket_id order
histogramFromStorage(tableID, colID) == Accumulate(hist[tableID].col[colID].deltas)

\* A call of histogramFromStorage for the histogram the writer has committed
ReloadHistogram ==
    /\ wr.pc = "idle"
    /\ wr.fn = "stats"
    /\ wr.committed
    /\ ~wr.loaded.done
    /\ wr' = [wr EXCEPT !.loaded = [done |-> TRUE,
                                    Buckets |-> histogramFromStorage(wr.tableID, wr.hg.ID)]]
    /\ UNCHANGED <<storageVars, lease, handleVars, hmu, scmu, res, dec>>

-----------------------------------------------------------------------------
(* getTableByPhysicalID called with the schemas of a catalog *)

\* The schemas a meta-version can stand for: tables 5 and 7, and 9 either no ID
\* of the schema or a partition of one of its tables
SchemaShapes ==
    {sh \in [tables : SUBSET {5, 7}, parts : {{}, {<<9, 5>>}, {<<9, 7>>}}] :
        \A p \in sh.parts : p[2] \in sh.tables}

\* No call yet. catalog: the schema of every meta-version, last: the
\* meta-version of the last call, physicalID and table: its argument and result
NoCalls == [catalog |-> <<>>, last |-> 0, physicalID |-> 0, table |-> 0]

\* The infoschema.InfoSchema of a meta-version
SchemaAt(ver) == [ver |-> ver, tables |-> res.catalog[ver + 1].tables,
                  parts |-> res.catalog[ver + 1].parts]

\* Lines 180-189: a call with the schema of meta-version ver, not below the one
\* of the call before
Resolve(ver, physicalID) ==
    /\ ver >= res.last
    /\ LET mu == ResolveCache(SchemaAt(ver), muSchema)
       IN  /\ muSchema' = mu
           /\ res' = [res EXCEPT !.last = ver, !.physicalID = physicalID,
                                 !.table = ResolveTable(SchemaAt(ver), mu, physicalID)]
    /\ UNCHANGED <<storageVars, lease, maps, tbls, cache, upd, rd, ld, st, needed, markSet,
                   overwritten, wr, hmu, scmu, dec>>

-----------------------------------------------------------------------------
(* columnStatsFromStorage called on the column a call before left *)

\* No call yet. tid: the table of the column, col: the entry of table.Columns,
\* h: the row of stats_histograms of the last call, loadAll: its argument, query:
\* what it read ("count": line 373, "buckets": lines 388-392, "none")
NoDecode == [tid |-> 0, col |-> NoCol, h |-> NoHist, loadAll |-> FALSE, query |-> "none"]

\* The rows of stats_histograms the function is called with, with their rows of
\* stats_buckets
HistRows ==
    {[ver |-> ComposeTS(ms, 0), ndv |-> 2, null |-> null, tot |-> tot, deltas |-> d] :
        ms \in 1 .. MaxTime, null \in {0, 1}, tot \in {8, 9},
        d \in {<<>>, <<[count |-> 10, repeats |-> 1], [count |-> 15, repeats |-> 2]>>}}

\* Lines 372-395: the query the function sends for a column of the table
ColumnQuery(h, histID, table, tableInfo, loadAll, l) ==
    IF NotNeedLoad(l, histID \in tableInfo.Handle, table.Columns[histID], h.ver, loadAll)
    THEN "count"
    ELSE IF NeedFullLoad(table.Columns[histID], h.ver, loadAll) THEN "buckets"
    ELSE "none"

\* Lines 350-422: a call for column 1 of the table, on the Table that holds the
\* column the call before left
Decode(h, loadAll) ==
    LET table == [NewTable(dec.tid) EXCEPT !.Columns[1] = dec.col]
    IN  /\ dec' = [dec EXCEPT
                      !.col = columnStatsFromStorage(h, 1, table, TableInfo(dec.tid), loadAll,
                                                     lease),
                      !.h = h, !.loadAll = loadAll,
                      !.query = ColumnQuery(h, 1, table, TableInfo(dec.tid), loadAll, lease)]
        /\ UNCHANGED <<storageVars, lease, handleVars, wr, hmu, scmu, res>>

-----------------------------------------------------------------------------
(* Clear, and the mutex of updateStatsCache taken in a step of its own *)

\* Lines 73-81: under h.mu, store an empty snapshot of version 0. The session
\* variables of lines 76-79 are not part of the model
Clear ==
    /\ hmu = "none"
    /\ FreeMaps # {}
    /\ LET target == Lowest(FreeMaps)
           rawMaps == [maps EXCEPT ![target] = EmptyMap]
       IN  SetHandle(rawMaps, tbls, [tables |-> target, version |-> 0], upd, rd, ld, st)
    /\ UNCHANGED <<storageVars, lease, writerVars, scmu, muSchema, needed, markSet>>

\* The goroutines that call updateStatsCache
Publishers == {<<"upd", 0>>, <<"ld", 0>>, <<"st", 0>>} \cup {<<"rd", r>> : r \in Readers}

\* Goroutine g has built its candidate and is about to call updateStatsCache
\* (lines 165, 220, 288, 302)
CanLockAnywhere(g) == TRUE
CanPublish(g) ==
    \/ g = <<"upd", 0>> /\ upd.pc = "run" /\ upd.rows = <<>>
    \/ g = <<"ld", 0>> /\ ld.pc = "publish"
    \/ g = <<"st", 0>> /\ st.pc = "publish"
    \/ g[1] = "rd" /\ rd[g[2]].pc = "miss"

\* Line 227: h.statsCache.Lock() returns when the mutex is free
LockSc(g) ==
    /\ CanPublish(g)
    /\ scmu = Free
    /\ scmu' = g
    /\ UNCHANGED <<storageVars, lease, handleVars, writerVars>>

-----------------------------------------------------------------------------
(* The specifications *)

\* NewHandle, lines 84-94, then SetLastUpdateVersion(version) when version is
\* not 0: an empty snapshot, no partition index, every goroutine idle
HandleWithin(version, limit) ==
    /\ lease \in Leases
    /\ muSchema = [schemaVersion |-> 0, pid2tid |-> {}]
    /\ maps = [m \in MapRefs |-> IF m = 1 THEN EmptyMap ELSE NoMap]
    /\ tbls = [t \in TblRefs |-> NoTbl]
    /\ cache = [tables |-> 1, version |-> version]
    /\ upd = UpdIdle("none", FALSE)
    /\ rd = [r \in Readers |-> RdIdle(0, 0)]
    /\ ld = LdIdle("none")
    /\ st = StIdle
    /\ needed = {}
    /\ scanned = {}
    /\ lagOK = TRUE
    /\ markSet = (version # 0)
    /\ overwritten = FALSE
    /\ calls = [upd |-> 0, rd |-> [r \in Readers |-> 0], ld |-> 0, st |-> 0, other |-> 0,
                limit |-> limit, pair |-> 0]
    /\ wr = WrIdle
    /\ hmu = "none"
    /\ scmu = Free

\* The handle of the specifications that count the calls up to MaxCalls
HandleAt(version) == HandleWithin(version, MaxCalls)

InitHandle == HandleAt(0) /\ res = NoCalls /\ dec = NoDecode

\* A new handle on a storage where an ANALYZE transaction of table 7 is in
\* flight, with timestamp 1 ms
Init ==
    /\ InitHandle
    /\ now = 1
    /\ meta = [p \in PhysIDs |-> NoRow]
    /\ pend = [p \in PhysIDs |->
                  IF p = 7 THEN [version |-> ComposeTS(1, 0), kind |-> "column"] ELSE NoPend]
    /\ hist = [p \in PhysIDs |-> NoHists]
    /\ schemaIdx = 1

\* The goroutines of the handle, step by step, while the transaction commits.
\* Each goroutine starts a bounded number of calls
Next ==
    \/ UNCHANGED calls /\ \E p \in PhysIDs : TxnCommit(p)
    \/ calls.upd < MaxUpdates /\ calls' = [calls EXCEPT !.upd = @ + 1] /\ UpdateStart
    \/ UNCHANGED calls /\ UpdateRow
    \/ UNCHANGED calls /\ UpdatePublish
    \/ /\ calls.st < MaxSets /\ calls' = [calls EXCEPT !.st = @ + 1]
       /\ \E ms \in SetVersionsMs : SetLoad(ComposeTS(ms, 0))
    \/ UNCHANGED calls /\ SetPublish
    \/ \E r \in Readers, pid \in PhysIDs :
          calls.rd[r] < MaxReads /\ calls' = [calls EXCEPT !.rd[r] = @ + 1] /\ GetLoad(r, pid)
    \/ UNCHANGED calls /\ \E r \in Readers : GetPublish(r)
    \/ UNCHANGED calls /\ \E p \in PhysIDs, c \in ColIDs : NeedColumn(p, c)
    \/ calls.ld < MaxLoads /\ calls' = [calls EXCEPT !.ld = @ + 1] /\ LoadStart
    \/ UNCHANGED calls /\ \E col \in PhysIDs \X ColIDs : LoadColumn(col)
    \/ UNCHANGED calls /\ LoadPublish
    \/ UNCHANGED calls /\ LoadReturn

Spec == Init /\ [][Next]_vars

\* A new handle on an empty storage
InitRefresh ==
    /\ InitHandle
    /\ now = 0
    /\ meta = [p \in PhysIDs |-> NoRow]
    /\ pend = [p \in PhysIDs |-> NoPend]
    /\ hist = [p \in PhysIDs |-> NoHists]
    /\ schemaIdx = 1

\* The refresh loop alone on a storage that changes under it: the writers, the
\* DDL, Update step by step and whole calls of SetLastUpdateVersion
NextRefresh ==
    \/ UNCHANGED calls /\ \E p \in PhysIDs, kind \in WriteKinds : TxnBegin(p, kind)
    \/ UNCHANGED calls /\ \E p \in PhysIDs : TxnCommit(p)
    \/ UNCHANGED calls /\ SchemaChange
    \/ UNCHANGED calls /\ UpdateStart
    \/ UNCHANGED calls /\ UpdateRow
    \/ UNCHANGED calls /\ UpdatePublish
    \/ UNCHANGED calls /\ \E ms \in SetVersionsMs : SetLastUpdateVersion(ComposeTS(ms, 0))

SpecRefresh == InitRefresh /\ [][NextRefresh]_vars

\* A new handle on a storage that holds the ANALYZE result of table 7 (version
\* 1 ms) while a transaction writing the stats_meta row of partition 9 is in
\* flight (version 2 ms)
InitLoad ==
    /\ InitHandle
    /\ now = 2
    /\ meta = [p \in PhysIDs |->
                  IF p = 7 THEN MetaWritten(ComposeTS(1, 0), "column") ELSE NoRow]
    /\ pend = [p \in PhysIDs |->
                  IF p = 9 THEN [version |-> ComposeTS(2, 0), kind |-> "meta"] ELSE NoPend]
    /\ hist = [p \in PhysIDs |->
                  IF p = 7 THEN HistWritten(NoHists, ComposeTS(1, 0), "column") ELSE NoHists]
    /\ schemaIdx = 1

\* The loader with Update and the readers, step by step, while the optimizer
\* asks for histograms and the transaction commits
NextLoad ==
    \/ UNCHANGED calls /\ \E p \in PhysIDs : TxnCommit(p)
    \/ calls.upd < MaxUpdates /\ calls' = [calls EXCEPT !.upd = @ + 1] /\ UpdateStart
    \/ UNCHANGED calls /\ UpdateRow
    \/ UNCHANGED calls /\ UpdatePublish
    \/ \E r \in Readers, pid \in PhysIDs :
          calls.rd[r] < MaxReads /\ calls' = [calls EXCEPT !.rd[r] = @ + 1] /\ GetLoad(r, pid)
    \/ UNCHANGED calls /\ \E r \in Readers : GetPublish(r)
    \/ UNCHANGED calls /\ \E p \in PhysIDs, c \in ColIDs : NeedColumn(p, c)
    \/ calls.ld < MaxLoads /\ calls' = [calls EXCEPT !.ld = @ + 1] /\ LoadStart
    \/ UNCHANGED calls /\ \E col \in PhysIDs \X ColIDs : LoadColumn(col)
    \/ UNCHANGED calls /\ LoadPublish
    \/ UNCHANGED calls /\ LoadReturn

SpecLoad == InitLoad /\ [][NextLoad]_vars

\* Update called twice in a row. calls.pair = 1: the first call of the pair has
\* started, 2: the second. Until the first call of the pair starts, the
\* transaction commits and every goroutine runs, Update itself up to
\* MaxEarlierUpdates times
Open == calls.pair = 0
FirstOfPair == Open /\ calls' = [calls EXCEPT !.pair = 1]
SecondOfPair ==
    /\ calls.pair = 1
    /\ upd.pc = "idle"
    /\ upd.ret = "nil"
    /\ calls' = [calls EXCEPT !.pair = 2]

\* Once the first call of the pair has started nothing else runs, and the second
\* call starts when the first has returned nil
NextTwice ==
    \/ Open /\ UNCHANGED calls /\ \E p \in PhysIDs : TxnCommit(p)
    \/ /\ calls.pair = 0 /\ calls.upd < MaxEarlierUpdates
       /\ calls' = [calls EXCEPT !.upd = @ + 1] /\ UpdateStart
    \/ FirstOfPair /\ UpdateStart
    \/ SecondOfPair /\ UpdateStart
    \/ UNCHANGED calls /\ UpdateRow
    \/ UNCHANGED calls /\ UpdatePublish
    \/ /\ Open /\ calls.st < MaxSets /\ calls' = [calls EXCEPT !.st = @ + 1]
       /\ \E ms \in SetVersionsMs : SetLoad(ComposeTS(ms, 0))
    \/ Open /\ UNCHANGED calls /\ SetPublish
    \/ \E r \in Readers, pid \in PhysIDs :
          /\ Open /\ calls.rd[r] < MaxLoads
          /\ calls' = [calls EXCEPT !.rd[r] = @ + 1] /\ GetLoad(r, pid)
    \/ Open /\ UNCHANGED calls /\ \E r \in Readers : GetPublish(r)
    \/ Open /\ UNCHANGED calls /\ \E p \in PhysIDs, c \in ColIDs : NeedColumn(p, c)
    \/ Open /\ calls.ld < MaxLoads /\ calls' = [calls EXCEPT !.ld = @ + 1] /\ LoadStart
    \/ Open /\ UNCHANGED calls /\ \E col \in PhysIDs \X ColIDs : LoadColumn(col)
    \/ Open /\ UNCHANGED calls /\ LoadPublish
    \/ Open /\ UNCHANGED calls /\ LoadReturn

SpecTwice == InitLoad /\ [][NextTwice]_vars

\* The histograms the writer is given: up to MaxBuckets buckets whose counts
\* are cumulative (they never decrease)
BucketVals ==
    {[Count |-> 10, Repeat |-> 1], [Count |-> 25, Repeat |-> 2], [Count |-> 40, Repeat |-> 1]}
CumulativeBuckets ==
    {b \in UNION {[1 .. n -> BucketVals] : n \in 0 .. MaxBuckets} :
        \A i \in 1 .. Len(b) - 1 : b[i].Count <= b[i + 1].Count}
Histograms ==
    {[ID |-> 1, NDV |-> 2, NullCount |-> 1, TotColSize |-> 8, Buckets |-> b] :
        b \in CumulativeBuckets}

\* A new handle on an empty storage, its clock two transactions before the end
InitWriter ==
    /\ InitHandle
    /\ now = MaxTime - 2
    /\ meta = [p \in PhysIDs |-> NoRow]
    /\ pend = [p \in PhysIDs |-> NoPend]
    /\ hist = [p \in PhysIDs |-> NoHists]
    /\ schemaIdx = 1

\* The writers of the handle, one call after the other (h.mu), with any
\* statement failing, and reads of the histogram committed
NextWriter ==
    \/ UNCHANGED calls /\ \E count \in {-1, 26}, hg \in Histograms :
                              SaveBegin("stats", 7, count, 0, hg)
    \/ UNCHANGED calls /\ SaveBegin("meta", 7, 30, 5, NoHg)
    \/ UNCHANGED calls /\ SavePrepare
    \/ UNCHANGED calls /\ SaveExec
    \/ UNCHANGED calls /\ SaveFinish
    \/ UNCHANGED calls /\ ReloadHistogram

SpecWriter == InitWriter /\ [][NextWriter]_vars

\* A new handle with a lease of 2/3 ms on a storage that holds the ANALYZE
\* result of table 7
InitLocks ==
    /\ InitHandle
    /\ lease = 666667
    /\ now = 1
    /\ meta = [p \in PhysIDs |->
                  IF p = 7 THEN MetaWritten(ComposeTS(1, 0), "column") ELSE NoRow]
    /\ pend = [p \in PhysIDs |-> NoPend]
    /\ hist = [p \in PhysIDs |->
                  IF p = 7 THEN HistWritten(NoHists, ComposeTS(1, 0), "column") ELSE NoHists]
    /\ schemaIdx = 1

\* The versions SetLastUpdateVersion is called with
AnyVersionsMs == {0, 2}

RECURSIVE SumOver(_, _)
SumOver(f, S) == IF S = {} THEN 0 ELSE f[Lowest(S)] + SumOver(f, S \ {Lowest(S)})

\* The calls started so far, and the start of one more
Started == calls.upd + SumOver(calls.rd, Readers) + calls.ld + calls.st + calls.other
StartUpd == Started < calls.limit /\ calls' = [calls EXCEPT !.upd = @ + 1]
StartRd(r) == Started < calls.limit /\ calls' = [calls EXCEPT !.rd[r] = @ + 1]
StartLd == Started < calls.limit /\ calls' = [calls EXCEPT !.ld = @ + 1]
StartSt == Started < calls.limit /\ calls' = [calls EXCEPT !.st = @ + 1]
StartOther == Started < calls.limit /\ calls' = [calls EXCEPT !.other = @ + 1]

\* Every operation of the handle, step by step; each publisher takes the mutex
\* of updateStatsCache in a step of its own. The goroutines start calls.limit calls
\* between them
NextLocks ==
    \/ StartUpd /\ UpdateStart
    \/ UNCHANGED calls /\ UpdateRow
    \/ UNCHANGED calls /\ \E g \in Publishers : LockSc(g)
    \/ UNCHANGED calls /\ scmu = <<"upd", 0>> /\ UpdatePublish
    \/ StartSt /\ \E ms \in AnyVersionsMs : SetLoad(ComposeTS(ms, 0))
    \/ UNCHANGED calls /\ scmu = <<"st", 0>> /\ SetPublish
    \/ \E r \in Readers, pid \in PhysIDs : StartRd(r) /\ GetLoad(r, pid)
    \/ UNCHANGED calls /\ \E r \in Readers : scmu = <<"rd", r>> /\ GetPublish(r)
    \/ \E r \in Readers : StartRd(r) /\ LastUpdateVersion(r)
    \/ StartOther /\ \E p \in PhysIDs, c \in ColIDs : NeedColumn(p, c)
    \/ StartLd /\ LoadStart
    \/ UNCHANGED calls /\ \E col \in PhysIDs \X ColIDs : LoadColumn(col)
    \/ UNCHANGED calls /\ scmu = <<"ld", 0>> /\ LoadPublish
    \/ UNCHANGED calls /\ LoadReturn
    \/ StartOther /\ SaveBegin("meta", 9, 30, 5, NoHg)
    \/ StartOther /\ SaveBegin("stats", 7, 26, 0,
                               [ID |-> 1, NDV |-> 2, NullCount |-> 1, TotColSize |-> 8,
                                Buckets |-> <<[Count |-> 10, Repeat |-> 1]>>])
    \/ UNCHANGED calls /\ SavePrepare
    \/ UNCHANGED calls /\ SaveExec
    \/ UNCHANGED calls /\ SaveFinish
    \/ StartOther /\ Clear

SpecLocks == InitLocks /\ [][NextLocks]_vars

\* The same handle and storage with MaxMutexCalls calls
InitMutex ==
    /\ HandleWithin(0, MaxMutexCalls)
    /\ res = NoCalls
    /\ dec = NoDecode
    /\ lease = 666667
    /\ now = 1
    /\ meta = [p \in PhysIDs |->
                  IF p = 7 THEN MetaWritten(ComposeTS(1, 0), "column") ELSE NoRow]
    /\ pend = [p \in PhysIDs |-> NoPend]
    /\ hist = [p \in PhysIDs |->
                  IF p = 7 THEN HistWritten(NoHists, ComposeTS(1, 0), "column") ELSE NoHists]
    /\ schemaIdx = 1

SpecMutex == InitMutex /\ [][NextLocks]_vars

\* A new handle, and a catalog with a schema for each of the meta-versions
\* 0 .. MaxSchemaVer
InitResolve ==
    /\ HandleAt(0)
    /\ res \in {[NoCalls EXCEPT !.catalog = c] : c \in [1 .. MaxSchemaVer + 1 -> SchemaShapes]}
    /\ dec = NoDecode
    /\ now = 0
    /\ meta = [p \in PhysIDs |-> NoRow]
    /\ pend = [p \in PhysIDs |-> NoPend]
    /\ hist = [p \in PhysIDs |-> NoHists]
    /\ schemaIdx = 1

\* Calls of the resolver with schemas of non-decreasing meta-versions
NextResolve ==
    UNCHANGED calls /\ \E ver \in 0 .. MaxSchemaVer, physicalID \in {5, 7, 9} :
                           Resolve(ver, physicalID)

SpecResolve == InitResolve /\ [][NextResolve]_vars

\* A new handle; the column is column 1 of table 7 or of table 5, whose
\* column 1 is the handle
InitColumn ==
    /\ HandleAt(0)
    /\ res = NoCalls
    /\ dec \in {[NoDecode EXCEPT !.tid = t] : t \in {5, 7}}
    /\ now = 0
    /\ meta = [p \in PhysIDs |-> NoRow]
    /\ pend = [p \in PhysIDs |-> NoPend]
    /\ hist = [p \in PhysIDs |-> NoHists]
    /\ schemaIdx = 1

\* Calls of columnStatsFromStorage with any row and either value of loadAll
NextColumn ==
    UNCHANGED calls /\ \E h \in HistRows, loadAll \in BOOLEAN : Decode(h, loadAll)

SpecColumn == InitColumn /\ [][NextColumn]_vars

\* Timestamps with the logical parts 0, 1 and the largest one
WindowVersions ==
    {ComposeTS(ms, logical) : ms \in 0 .. MaxTime, logical \in {0, 1, PhysicalShift - 1}}

\* A handle whose version SetLastUpdateVersion has set, on a storage where
\* stats_meta holds at most one row per table, of any version, and no histogram
InitWindow ==
    /\ \E high \in WindowVersions : HandleAt(high)
    /\ res = NoCalls
    /\ dec = NoDecode
    /\ now = MaxTime
    /\ meta \in [PhysIDs -> {NoRow} \cup {MetaWritten(v, "meta") : v \in WindowVersions \ {0}}]
    /\ pend = [p \in PhysIDs |-> NoPend]
    /\ hist = [p \in PhysIDs |-> NoHists]
    /\ schemaIdx = 1

\* Update alone, step by step, on a storage that does not change
NextWindow ==
    \/ UNCHANGED calls /\ UpdateStart
    \/ UNCHANGED calls /\ UpdateRow
    \/ UNCHANGED calls /\ UpdatePublish

SpecWindow == InitWindow /\ [][NextWindow]_vars

-----------------------------------------------------------------------------
(* Steps of Update, as the properties see them *)

\* A step of the goroutine running Update
UpdStep == upd.pc # upd'.pc \/ upd.rows # upd'.rows \/ upd.ret # upd'.ret

\* The step in which Update builds its snapshot, calls updateStatsCache and
\* returns nil
UpdPublishStep == upd.pc = "run" /\ upd.rows = <<>> /\ upd'.pc = "idle"

\* Nobody has published since Update loaded oldCache
NoConcurrentPublisher == cache = upd.oldCache

\* Update has scanned at least one row
ScannedSome == upd.log # <<>>

-----------------------------------------------------------------------------
(* Properties of the snapshot under concurrency *)

\* C1: in every interleaving of Update, GetPartitionStats, LoadNeededHistograms
\* and SetLastUpdateVersion the version of the current snapshot never
\* decreases: a candidate below the current version is never installed
C1_VersionNeverDecreases == [][cache'.version >= cache.version]_vars

\* A reader that missed holds a snapshot older than the one Update and
\* SetLastUpdateVersion have published since: its candidate is below the current
C1_Witness ==
    /\ \E r \in Readers : rd[r].pc = "miss" /\ rd[r].sc.version < cache.version
    /\ upd.ret = "nil"
    /\ markSet

\* C2: no step writes to the tables map of a published snapshot that is still
\* held, nor to a Table such a map holds (its Columns and Indices included)
C2_PublishedNeverWritten == ~overwritten

\* The loader holds a snapshot with an entry of table 7 while the current
\* snapshot holds a newer Table of 7 built by Update
C2_Witness ==
    /\ ld.sc.tables # 0
    /\ ld.sc.tables # cache.tables
    /\ maps[ld.sc.tables][7] # 0
    /\ maps[cache.tables][7] # 0
    /\ maps[ld.sc.tables][7] # maps[cache.tables][7]
    /\ ~tbls[maps[cache.tables][7]].Pseudo

\* C3: while Update, LoadNeededHistograms and the readers run (and nobody calls
\* SetLastUpdateVersion), the Version of the Tables one reader gets for one
\* physical ID in successive calls never decreases
C3_ReaderVersionMonotone ==
    [][\A r \in Readers :
          (/\ calls.st = 0
           /\ rd'[r].pc = "idle"
           /\ rd[r].ret # 0
           /\ rd'[r].ret # 0
           /\ tbls[rd[r].ret].PhysicalID = rd'[r].pid)
          => tbls'[rd'[r].ret].Version >= tbls[rd[r].ret].Version]_vars

\* A reader that got the Table of 7 that Update built is in its next call for
\* 7 and has found no entry
C3_Witness ==
    /\ calls.st = 0
    /\ \E r \in Readers :
          /\ rd[r].pc = "miss" /\ rd[r].pid = 7
          /\ rd[r].ret # 0
          /\ tbls[rd[r].ret].PhysicalID = 7
          /\ tbls[rd[r].ret].Version > 0

-----------------------------------------------------------------------------
(* Properties of the refresh *)

\* C4: when every row committed less than 3 leases after its version and only
\* Update moved the version of the snapshot, every committed row of stats_meta
\* with version <= high - offset has been returned by a scan of Update
C4_NoMissedRow ==
    (lagOK /\ ~markSet /\ cache.version >= DurationToTS(3 * lease))
        => \A p \in PhysIDs :
              (meta[p].version # 0
               /\ meta[p].version <= cache.version - DurationToTS(3 * lease))
                  => p \in scanned

\* With 3 leases worth 2 ms: the snapshot is at 3 ms and a row of 1 ms, at the
\* edge of the window, is committed
C4_Witness ==
    /\ lagOK /\ ~markSet
    /\ DurationToTS(3 * lease) = ComposeTS(2, 0)
    /\ cache.version = ComposeTS(3, 0)
    /\ \E p \in PhysIDs : meta[p].version = ComposeTS(1, 0) /\ p \in scanned

\* The step in which the stats_meta query of Update succeeds
UpdScanStep == upd.pc = "idle" /\ upd'.pc = "run" /\ ~upd'.qerr

\* The look-back offset and the lower end of the scan as the design gives them:
\* (3 leases in milliseconds) << 18, and high - offset or 0
WindowOffset == ((3 * lease) \div 1000000) * 262144
WindowSince == IF cache.version >= WindowOffset THEN cache.version - WindowOffset ELSE 0

\* The rows the scan of this step returned, as table_id and version
ScannedRows == {<<upd'.rows[i].table_id, upd'.rows[i].version>> : i \in 1 .. Len(upd'.rows)}

\* The scan returns exactly the rows with version > since
WindowExact ==
    ScannedRows = {<<p, meta[p].version>> : p \in {q \in PhysIDs : meta[q].version > WindowSince}}

\* The rows at high - offset + 1, high - offset / 2 and high are returned, the
\* row at high - offset is not
WindowCases ==
    \A p \in PhysIDs :
        /\ (meta[p].version > 0
            /\ meta[p].version \in {cache.version - WindowOffset + 1,
                                    cache.version - WindowOffset \div 2, cache.version})
               => <<p, meta[p].version>> \in ScannedRows
        /\ (meta[p].version > 0 /\ meta[p].version = cache.version - WindowOffset)
               => <<p, meta[p].version>> \notin ScannedRows

\* C5 as stated: an Update started at version high scans exactly the rows with
\* version > since; the rows at high - offset + 1, high - offset / 2 and high
\* are processed and the row at high - offset is not
C5_Original == [][UpdScanStep => (WindowExact /\ WindowCases)]_vars

\* C5, amended: an Update started at version high scans exactly the rows with
\* version > since; when offset > 0 the rows at high - offset + 1,
\* high - offset / 2 and high are processed and the row at high - offset is not
C5_ScanWindow == [][UpdScanStep => (WindowExact /\ (WindowOffset > 0 => WindowCases))]_vars

\* Update has scanned from a version above the offset of 2 ms a storage with a
\* row at high - offset + 1, which it returned, and none at high - offset
C5_Witness ==
    /\ upd.pc = "run"
    /\ upd.oldCache.version = ComposeTS(3, 0)
    /\ DurationToTS(3 * lease) = ComposeTS(2, 0)
    /\ meta[7].version = ComposeTS(1, 1)
    /\ meta[9].version = ComposeTS(1, 0)
    /\ scanned = {7}

\* The entries of the log of Update
Logged == {upd.log[i] : i \in 1 .. Len(upd.log)}

\* The rows whose table resolved and whose statistics were read
ReadOk(e) == e.tid # 0 /\ e.hists /\ e.err = "none"

\* The rows whose physical ID did not resolve or whose table has no rows in
\* stats_histograms
Gone(e) == e.tid = 0 \/ (~e.hists /\ e.err = "none")

\* The entry of the snapshot is stamped with the values of the row
StampedWith(t, row) ==
    /\ t.PhysicalID = row.table_id
    /\ t.Version = row.version
    /\ t.Count = row.count
    /\ t.ModifyCount = row.modify_count

\* The snapshot after the step
SnapshotAfter == Contents(cache', maps', tbls')

\* C6 as stated: an Update that scanned a row and returns nil, nobody else
\* publishing, leaves the snapshot at the version of the last scanned row,
\* whatever its version was before, with an entry stamped with the row's values
\* for every row read successfully
C6_Original ==
    [][(UpdPublishStep /\ ScannedSome /\ NoConcurrentPublisher)
          => /\ SnapshotAfter.version = upd.log[Len(upd.log)].row.version
             /\ \A e \in Logged :
                   ReadOk(e) => StampedWith(SnapshotAfter.tables[e.row.table_id], e.row)]_vars

\* C6, amended: the same when the version of the last scanned row is not below
\* the version of the snapshot before the call; otherwise the snapshot stays
\* as it was
C6_RefreshResult ==
    [][(UpdPublishStep /\ ScannedSome /\ NoConcurrentPublisher)
          => IF upd.log[Len(upd.log)].row.version >= cache.version
             THEN /\ SnapshotAfter.version = upd.log[Len(upd.log)].row.version
                  /\ \A e \in Logged :
                        ReadOk(e) => StampedWith(SnapshotAfter.tables[e.row.table_id], e.row)
             ELSE SnapshotAfter = Snapshot]_vars

\* Update is about to publish two rows it read, of the versions 1 ms and 2 ms,
\* over a snapshot nobody else has replaced
C6_Witness ==
    /\ upd.pc = "run" /\ upd.rows = <<>> /\ NoConcurrentPublisher
    /\ Len(upd.log) = 2
    /\ \A e \in Logged : ReadOk(e)
    /\ upd.log[2].row.version >= cache.version

\* C7 as stated: a row whose read failed does not abort the refresh, the other
\* rows are processed, and the published snapshot holds for its table exactly
\* the entry the previous snapshot held
C7_Original ==
    [][/\ (upd.pc = "run" /\ upd.rows # <<>> /\ UpdStep)
          => (upd'.pc = "run" /\ upd'.rows = Tail(upd.rows))
       /\ UpdPublishStep
          => \A e \in Logged :
                e.err # "none"
                   => SnapshotAfter.tables[e.row.table_id] = Snapshot.tables[e.row.table_id]]_vars

\* Update is about to publish after the stats_histograms query of table 7
\* failed, over a snapshot that holds an entry of 7
C7_Witness ==
    /\ upd.pc = "run" /\ upd.rows = <<>> /\ NoConcurrentPublisher
    /\ \E e \in Logged : e.row.table_id = 7 /\ e.err = "query"
    /\ Snapshot.tables[7] # NoTbl

\* C8 as stated: after an Update that returns nil, nobody else publishing, the
\* snapshot has no entry for the rows that did not resolve or have no
\* histogram, and its version is the version of the last scanned row
C8_Original ==
    [][(UpdPublishStep /\ NoConcurrentPublisher /\ \E e \in Logged : Gone(e))
          => /\ SnapshotAfter.version = upd.log[Len(upd.log)].row.version
             /\ \A e \in Logged : Gone(e) => SnapshotAfter.tables[e.row.table_id] = NoTbl]_vars

\* C8, amended: the same when the version of the last scanned row is not below
\* the version of the snapshot; otherwise the entries stay
C8_DeletionRule ==
    [][(UpdPublishStep /\ NoConcurrentPublisher /\ \E e \in Logged : Gone(e))
          => IF upd.log[Len(upd.log)].row.version >= cache.version
             THEN /\ SnapshotAfter.version = upd.log[Len(upd.log)].row.version
                  /\ \A e \in Logged :
                        Gone(e) => SnapshotAfter.tables[e.row.table_id] = NoTbl
             ELSE SnapshotAfter.tables = Snapshot.tables]_vars

\* Update is about to publish the deletion of table 7, dropped from the schema,
\* over a snapshot that holds an entry of 7
C8_Witness ==
    /\ upd.pc = "run" /\ upd.rows = <<>> /\ NoConcurrentPublisher
    /\ \E e \in Logged : e.row.table_id = 7 /\ e.tid = 0
    /\ Snapshot.tables[7] # NoTbl
    /\ upd.log[Len(upd.log)].row.version >= cache.version

\* A cold start: Update loaded the empty snapshot of version 0
ColdStart == upd.oldCache.version = 0 /\ maps[upd.oldCache.tables] = EmptyMap

\* The rows of resolvable tables without rows in stats_histograms
NoHistograms(e) == e.tid # 0 /\ ~e.hists /\ e.err = "none"

C10_FailedRefresh ==
    [][/\ (upd.pc = "idle" /\ UpdStep /\ upd'.qerr)
          => (upd'.pc = "idle" /\ upd'.ret = "err" /\ SnapshotAfter = Snapshot)
       /\ (UpdStep /\ SnapshotAfter # Snapshot)
          => /\ UpdPublishStep
             /\ SnapshotAfter.version = upd.lastVersion
             /\ \A p \in PhysIDs :
                   SnapshotAfter.tables[p] =
                       IF p \in upd.deleted THEN NoTbl
                       ELSE IF \E i \in 1 .. Len(upd.tables) : tbls[upd.tables[i]].PhysicalID = p
                       THEN tbls[CHOOSE t \in Range(upd.tables) : tbls[t].PhysicalID = p]
                       ELSE Contents(upd.oldCache, maps, tbls).tables[p]]_vars

\* The stats_meta query of an Update has failed over a snapshot that an earlier
\* Update filled, with a committed row the snapshot does not have yet
C10_Witness ==
    /\ upd.pc = "idle" /\ upd.ret = "err"
    /\ Snapshot.tables[7] # NoTbl
    /\ meta[9].version > cache.version

-----------------------------------------------------------------------------
(* GetPartitionStats, as the properties see it *)

\* The step in which reader r publishes its pseudo table and returns it
RdPublishStep(r) == rd[r].pc = "miss" /\ rd'[r].pc = "idle"

\* The step in which reader r finds an entry and returns it
RdHitStep(r) == rd[r].pc = "idle" /\ rd'[r].pc = "idle" /\ calls'.rd[r] # calls.rd[r]

\* The snapshot reader r loaded
Loaded(r) == Contents(rd[r].sc, maps, tbls)

\* The Table reader r returns is a pseudo table of the ID it asked for
ReturnsPseudo(r) ==
    /\ rd'[r].ret # 0
    /\ tbls'[rd'[r].ret].Pseudo
    /\ tbls'[rd'[r].ret].PhysicalID = rd[r].pid

\* The snapshot after the step is the one reader r loaded plus the Table it
\* returns, and the entry is that object
PromotedOver(r) ==
    /\ SnapshotAfter = [Loaded(r) EXCEPT !.tables[rd[r].pid] = tbls'[rd'[r].ret]]
    /\ maps'[cache'.tables][rd[r].pid] = rd'[r].ret

\* A hit returns the entry of the snapshot and leaves the snapshot alone
HitReturnsEntry(r) ==
    /\ rd'[r].ret # 0
    /\ rd'[r].ret = maps'[cache'.tables][rd'[r].pid]
    /\ tbls'[rd'[r].ret] = Snapshot.tables[rd'[r].pid]
    /\ SnapshotAfter = Snapshot

\* C11 as stated: after a GetPartitionStats that found no entry, the snapshot
\* is the one the call found plus a pseudo entry of the ID, which is the object
\* returned; a hit returns the cached entry and publishes nothing
C11_Original ==
    [][\A r \in Readers :
          /\ RdPublishStep(r) => (ReturnsPseudo(r) /\ PromotedOver(r))
          /\ RdHitStep(r) => HitReturnsEntry(r)]_vars

\* C11: a GetPartitionStats that found no entry returns a pseudo table of the
\* ID; if the current version is still the version of the snapshot it loaded,
\* the snapshot becomes the loaded one plus that entry (the object returned),
\* otherwise the snapshot is left alone. A hit returns the cached entry and
\* publishes nothing
C11_PseudoPromotion ==
    [][\A r \in Readers :
          /\ RdPublishStep(r) =>
                /\ ReturnsPseudo(r)
                /\ IF cache.version <= rd[r].sc.version
                   THEN PromotedOver(r)
                   ELSE SnapshotAfter = Snapshot
          /\ RdHitStep(r) => HitReturnsEntry(r)]_vars

\* A reader has returned the pseudo table of 9 it published over a snapshot that
\* holds the Table of 7 Update built, and its next call for 9 returned it again
C11_Witness ==
    \E r \in Readers :
        /\ rd[r].pc = "idle" /\ rd[r].pid = 9 /\ calls.rd[r] = 2
        /\ rd[r].ret # 0 /\ tbls[rd[r].ret].Pseudo
        /\ maps[cache.tables][9] = rd[r].ret
        /\ maps[cache.tables][7] # 0 /\ ~tbls[maps[cache.tables][7]].Pseudo

-----------------------------------------------------------------------------
(* LoadNeededHistograms, as the properties see it *)

\* The step in which the loader publishes the Table with the column it fetched
\* and removes the request (lines 288-289)
LdPublishStep == ld.pc = "publish" /\ ld'.pc = "loop"

\* The column of the request in the snapshot after the step
ColumnAfter(col) == SnapshotAfter.tables[col[1]].Columns[col[2]]

\* The column carries the buckets of its histogram in the storage
FullyBucketed(c, h) ==
    /\ c.ID # 0
    /\ Len(c.Buckets) > 0
    /\ c.Buckets = Accumulate(h.deltas)
    /\ c.Count = TotalRowCount(c.Buckets, c.NullCount)

\* C12: when LoadNeededHistograms removes a request after fetching its
\* histogram, the current snapshot holds the column with its full buckets and
\* Count = TotalRowCount, whatever Update and the readers published meanwhile
C12_LoadedWhenRemoved ==
    [][LdPublishStep =>
          /\ ld.col \notin needed'
          /\ FullyBucketed(ColumnAfter(ld.col), hist[ld.col[1]].col[ld.col[2]])]_vars

\* The loader has fetched the histogram of a column held in summary form and,
\* before it publishes, Update has published a newer version
C12_Witness ==
    /\ ld.pc = "publish"
    /\ ld.col \in needed
    /\ Len(tbls[maps[ld.sc.tables][ld.col[1]]].Columns[ld.col[2]].Buckets) = 0
    /\ Len(tbls[ld.tbl].Columns[ld.col[2]].Buckets) > 0
    /\ cache.version > ld.sc.version
    /\ upd.ret = "nil"

\* The requests the loader is done with in this step: the one it skipped in the
\* loop (lines 263-271) or the one it published (lines 288-289)
LdPassed ==
    IF LdPublishStep THEN {ld.col}
    ELSE IF ld.pc = "loop" /\ ld'.pc = "loop" THEN ld.cols \ ld'.cols
    ELSE {}

\* The step in which the loader returns the error of a fetch (lines 273-279)
LdErrorStep == ld.pc = "loop" /\ ld'.pc = "idle" /\ ld'.ret = "err"

\* C13: every captured request the loader gets past without error is out of
\* the needed set when the loader moves on (table without entry, unknown
\* column, column already loaded, column fetched), so none is left when the call
\* returns nil; the loader removes no other request, and a fetch error leaves
\* the set as it is
C13_LoaderDrains ==
    [][/\ LdPassed \cap needed' = {}
       /\ (ld.pc # ld'.pc \/ ld.cols # ld'.cols) => (needed \ needed') \subseteq LdPassed
       /\ LdErrorStep => needed' = needed]_vars

\* The loader has captured a request whose table has no entry in the snapshot
C13_Witness ==
    /\ ld.pc = "loop"
    /\ \E col \in ld.cols : col \in needed /\ maps[cache.tables][col[1]] = 0

-----------------------------------------------------------------------------
(* The writer path, as the properties see it *)

\* The writer has returned from SaveStatsToStorage after a COMMIT that succeeded
SavedStats == wr.pc = "idle" /\ wr.fn = "stats" /\ wr.committed

\* The committed rows of stats_buckets of the histogram the writer saved
StoredBuckets == hist[wr.tableID].col[wr.hg.ID].deltas

\* C14: after SaveStatsToStorage the rows of stats_buckets of the histogram are
\* exactly its buckets, in bucket_id order, bucket i with the count
\* c_i - c_(i-1) (c_1 for the first) and its repeats; histogramFromStorage
\* rebuilds from them the same cumulative counts with the same repeats
C14_BucketRoundTrip ==
    SavedStats =>
        /\ Len(StoredBuckets) = Len(wr.hg.Buckets)
        /\ \A i \in 1 .. Len(wr.hg.Buckets) :
              /\ StoredBuckets[i].count =
                    wr.hg.Buckets[i].Count - (IF i = 1 THEN 0 ELSE wr.hg.Buckets[i - 1].Count)
              /\ StoredBuckets[i].repeats = wr.hg.Buckets[i].Repeat
        /\ wr.loaded.done => wr.loaded.Buckets = wr.hg.Buckets

\* Cumulative [10, 25, 40] saved by the second transaction of the writer, stored
\* as [10, 15, 15] and reloaded
C14_Witness ==
    /\ SavedStats
    /\ wr.loaded.done
    /\ [i \in 1 .. Len(wr.hg.Buckets) |-> wr.hg.Buckets[i].Count] = <<10, 25, 40>>
    /\ [i \in 1 .. Len(StoredBuckets) |-> StoredBuckets[i].count] = <<10, 15, 15>>
    /\ hist[wr.tableID].col[wr.hg.ID].ver = ComposeTS(MaxTime, 0)

\* The step in which the writer returns
WrReturnStep == wr.pc # "idle" /\ wr'.pc = "idle"

\* The statements of a log that end a transaction
Endings(log) == {i \in 1 .. Len(log) : log[i].stmt \in {"commit", "rollback"}}

\* The statements the call that begins or is in progress has to execute
Planned(w) == IF w.fn = "meta" THEN MetaSQLs(w.count, w.modifyCount)
              ELSE StatsSQLs(w.count, w.hg)

-----------------------------------------------------------------------------
(* SetLastUpdateVersion, as the properties see it *)

\* The step in which SetLastUpdateVersion publishes and returns, nobody having
\* published since it loaded the snapshot
StPublishAlone == st.pc = "publish" /\ st'.pc = "idle" /\ cache = st.sc

\* C16 as stated: after SetLastUpdateVersion(v), for every v, the version of
\* the snapshot is v and its tables are what they were
C16_Original ==
    [][StPublishAlone =>
          /\ SnapshotAfter.version = st.v
          /\ SnapshotAfter.tables = Snapshot.tables]_vars

\* C16: after SetLastUpdateVersion(v) with no concurrent publisher the tables
\* of the snapshot are what they were, and its version is v if v is not below
\* the version before the call, else the version before the call
C16_SetVersion ==
    [][StPublishAlone =>
          /\ SnapshotAfter.version = IF st.v >= cache.version THEN st.v ELSE cache.version
          /\ SnapshotAfter.tables = Snapshot.tables]_vars

\* SetLastUpdateVersion has moved a snapshot that holds the Table of 7 from
\* version 1 ms to version 2 ms
C16_Witness ==
    /\ st.pc = "idle" /\ calls.st = 1
    /\ cache.version = ComposeTS(2, 0)
    /\ Snapshot.tables[7].Version = ComposeTS(1, 0)

-----------------------------------------------------------------------------
(* The resolver, as the properties see it *)

\* What a physical ID stands for in a schema: the table owning the partition,
\* the table itself, or nothing (0)
Owner(is, physicalID) ==
    IF \E p \in is.parts : p[1] = physicalID
    THEN (CHOOSE p \in is.parts : p[1] = physicalID)[2]
    ELSE IF physicalID \in is.tables THEN physicalID ELSE 0

\* The call of this step resolved its ID as its schema defines it
ResolvedRight == res'.table = Owner([ver |-> res'.last,
                                     tables |-> res.catalog[res'.last + 1].tables,
                                     parts |-> res.catalog[res'.last + 1].parts],
                                    res'.physicalID)

\* The partition index is rebuilt only for a meta-version other than the cached
RebuiltOnlyOnChange == muSchema' # muSchema => res'.last # muSchema.schemaVersion

\* C17 as stated: from a new handle, every call of a sequence with
\* non-decreasing meta-versions resolves a partition ID to the table owning it,
\* a table ID to the table and any other ID to nothing, and the index is
\* rebuilt only when the meta-version differs from the cached one
C17_Original == [][ResolvedRight /\ RebuiltOnlyOnChange]_vars

\* C17: the same for the calls whose schema has a meta-version other than 0,
\* the version a new handle holds as cached; a call with a schema of
\* meta-version 0 uses the index as it is (empty on a new handle) and reports
\* the partition IDs of that schema as unresolved
C17_PartitionResolution ==
    [][/\ RebuiltOnlyOnChange
       /\ res'.last # 0 => ResolvedRight
       /\ res'.last = 0 =>
             res'.table = IF res'.physicalID \in res.catalog[1].tables
                          THEN res'.physicalID ELSE 0]_vars

\* Partition 9, which the schema of meta-version 2 introduces, has been
\* resolved to its table 5 by a call with that schema
C17_Witness ==
    /\ res.catalog # <<>>
    /\ res.catalog[2].parts = {}
    /\ res.catalog[3].parts = {<<9, 5>>}
    /\ muSchema.schemaVersion = 2
    /\ muSchema.pid2tid = {<<9, 5>>}
    /\ res.last = 2 /\ res.physicalID = 9 /\ res.table = 5

-----------------------------------------------------------------------------
(* C18 *)

\* A call of columnStatsFromStorage
DecodeStep == dec' # dec

\* The cached column the call found, and the one it left
CachedColumn == dec.col
LeftColumn == dec'.col

\* The cases of the claim, from the inputs of the call
LazyCase ==
    /\ lease > 0
    /\ 1 \notin TableInfo(dec.tid).Handle
    /\ ~dec'.loadAll
    /\ \/ CachedColumn = NoCol
       \/ CachedColumn.Buckets = <<>> /\ CachedColumn.LastUpdateVersion < dec'.h.ver
FullCase ==
    /\ ~LazyCase
    /\ \/ CachedColumn = NoCol
       \/ CachedColumn.LastUpdateVersion < dec'.h.ver
       \/ dec'.loadAll

\* The column of the summary form: no buckets, no sketch, the count summed by
\* the storage plus the null count
SummaryForm ==
    /\ dec'.query = "count"
    /\ LeftColumn = [ID |-> 1, LastUpdateVersion |-> dec'.h.ver, NDV |-> dec'.h.ndv,
                     NullCount |-> dec'.h.null, TotColSize |-> dec'.h.tot,
                     Buckets |-> <<>>, Count |-> SumCounts(dec'.h.deltas) + dec'.h.null,
                     IsHandle |-> FALSE, CMSketch |-> FALSE]

\* The fully loaded column: the buckets of the row with running counts
FullForm ==
    /\ dec'.query = "buckets"
    /\ Len(LeftColumn.Buckets) = Len(dec'.h.deltas)
    /\ \A i \in 1 .. Len(dec'.h.deltas) :
          /\ LeftColumn.Buckets[i].Repeat = dec'.h.deltas[i].repeats
          /\ LeftColumn.Buckets[i].Count =
                dec'.h.deltas[i].count + (IF i = 1 THEN 0 ELSE LeftColumn.Buckets[i - 1].Count)
    /\ LeftColumn.LastUpdateVersion = dec'.h.ver
    /\ LeftColumn.CMSketch

\* The cached column kept, but for its TotColSize
KeptForm ==
    /\ dec'.query = "none"
    /\ LeftColumn = [CachedColumn EXCEPT !.TotColSize = dec'.h.tot]

\* C18: a call of columnStatsFromStorage for a column of the table metadata
\* leaves the summary form exactly in the lazy case (lease > 0, not the handle
\* column, loadAll false, cached column absent or without buckets and older
\* than the row); otherwise the fully loaded column exactly when the cached
\* column is absent, older than the row, or loadAll; otherwise the cached
\* column with the row's TotColSize. So a cached column with buckets is never
\* replaced by a summary form, and the handle column never gets one.
C18_LazyLoadGating ==
    [][DecodeStep =>
        /\ LazyCase <=> SummaryForm
        /\ FullCase <=> FullForm
        /\ (~LazyCase /\ ~FullCase) <=> KeptForm
        /\ CachedColumn.Buckets # <<>> => ~SummaryForm
        /\ 1 \in TableInfo(dec.tid).Handle => ~SummaryForm]_vars

\* A call with a lease found a cached column with buckets older than the row
\* and loaded the row's buckets in full
C18_Witness ==
    /\ lease > 0
    /\ dec.tid = 7
    /\ ~dec.loadAll
    /\ dec.query = "buckets"
    /\ dec.col.Buckets # <<>>
    /\ dec.col.LastUpdateVersion = dec.h.ver
    /\ dec.h.ver = ComposeTS(MaxTime, 0)

-----------------------------------------------------------------------------
(* C19 *)

\* A step that replaces the current snapshot by one of other contents
Replaces == SnapshotAfter # Snapshot

\* The step is the store and unlock of the goroutine holding the mutex of
\* updateStatsCache
StoresUnderScMu == scmu # Free /\ scmu' = Free

\* C19: every replacement of the current snapshot, Clear's included, is the
\* store of the holder of the mutex of updateStatsCache, and the version stored
\* is not below the version of the snapshot that was current at the store
C19_PublishDiscipline ==
    [][Replaces => StoresUnderScMu /\ SnapshotAfter.version >= Snapshot.version]_vars

\* The current snapshot is empty at version 0 while SetLastUpdateVersion is
\* about to publish on top of a snapshot of a later version it loaded: a store
\* has taken the version back
C19_Witness ==
    /\ st.pc = "publish"
    /\ st.sc.version > 0
    /\ cache.version = 0
    /\ \A p \in PhysIDs : Snapshot.tables[p] = NoTbl

-----------------------------------------------------------------------------
(* C20 *)

\* Goroutine g has its candidate and has only the load-compare-store of
\* updateStatsCache left to do
AtStore(g) ==
    \/ g = <<"upd", 0>> /\ upd.pc = "run" /\ upd.rows = <<>>
    \/ g = <<"ld", 0>> /\ ld.pc = "publish"
    \/ g = <<"st", 0>> /\ st.pc = "publish"
    \/ g[1] = "rd" /\ rd[g[2]].pc = "miss"

\* The store of goroutine g
StoreOf(g) ==
    \/ g = <<"upd", 0>> /\ UpdatePublish
    \/ g = <<"ld", 0>> /\ LoadPublish
    \/ g = <<"st", 0>> /\ SetPublish
    \/ g[1] = "rd" /\ GetPublish(g[2])

\* How far goroutine g has come
Position(g, u, l, s, r) ==
    IF g = <<"upd", 0>> THEN <<u.pc, Len(u.rows)>>
    ELSE IF g = <<"ld", 0>> THEN <<l.pc, Cardinality(l.cols)>>
    ELSE IF g = <<"st", 0>> THEN <<s.pc, 0>>
    ELSE <<r[g[2]].pc, 0>>

\* The mutex of updateStatsCache is held by a publisher that has only its store
\* left, and the handle mutex is held across steps by the writer path only
HeldForStoreOnly ==
    /\ scmu \in Publishers \cup {Free}
    /\ scmu # Free => AtStore(scmu)
    /\ hmu = "save" <=> wr.pc # "idle"

\* While the mutex of updateStatsCache stays held its holder takes no step: no
\* query, no statement, no handle mutex
HolderOnlyStores ==
    (scmu # Free /\ scmu' = scmu) =>
        Position(scmu, upd', ld', st', rd') = Position(scmu, upd, ld, st, rd)

\* Whoever holds a mutex can go on, and whoever waits for a free mutex gets it
NeverStuck ==
    /\ scmu # Free => ENABLED StoreOf(scmu)
    /\ hmu = "save" => ENABLED (SavePrepare \/ SaveExec \/ SaveFinish)
    /\ \A g \in Publishers : (AtStore(g) /\ scmu = Free) => ENABLED LockSc(g)
    /\ (upd.pc = "run" /\ upd.rows # <<>> /\ hmu = "none") => ENABLED UpdateRow
    /\ (hmu = "none" /\ scmu # Free) => ENABLED Clear

\* A read of an idle reader goes through while the mutexes are held
ReadsNeverWait ==
    \A r \in Readers :
        (rd[r].pc = "idle" /\ (scmu # Free \/ hmu = "save")) =>
            /\ ENABLED LastUpdateVersion(r)
            /\ \A pid \in PhysIDs : ENABLED GetLoad(r, pid)

\* A read that returns in its first step, a hit or LastUpdateVersion, leaves
\* the mutexes as they are
HitTakesNoMutex == \A r \in Readers : RdHitStep(r) => UNCHANGED <<scmu, hmu>>

\* C20: the mutex of updateStatsCache is held only for the load-compare-store
\* of a publication, its holder neither queries the storage nor takes the
\* handle mutex, and nobody takes it while holding the handle mutex; no
\* interleaving of the operations gets stuck, and a read that hits the cache,
\* or LastUpdateVersion, takes no mutex
C20_LockDiscipline ==
    /\ [](HeldForStoreOnly /\ NeverStuck /\ ReadsNeverWait)
    /\ [][HolderOnlyStores /\ HitTakesNoMutex]_vars

\* Update holds the mutex of updateStatsCache, the writer path holds the handle
\* mutex, and the reader's call of LastUpdateVersion has returned
C20_Witness ==
    /\ scmu = <<"upd", 0>>
    /\ hmu = "save"
    /\ rd[1].pc = "idle"
    /\ rd[1].pid = 0
    /\ calls.rd[1] = 1

-----------------------------------------------------------------------------
(* C21 *)

\* The publication of reader r leaves the entry of its ID alone when the
\* current snapshot holds a Table that is not a pseudo table
KeepsRealEntry(r) ==
    (Snapshot.tables[rd[r].pid] # NoTbl /\ ~Snapshot.tables[rd[r].pid].Pseudo) =>
        SnapshotAfter.tables[rd[r].pid] = Snapshot.tables[rd[r].pid]

\* The publication of reader r leaves alone the entries of the other IDs that
\* were published since reader r loaded its snapshot
KeepsLaterEntries(r) ==
    \A p \in PhysIDs \ {rd[r].pid} :
        (Snapshot.tables[p] # NoTbl /\ Snapshot.tables[p] # Loaded(r).tables[p]) =>
            SnapshotAfter.tables[p] = Snapshot.tables[p]

\* C21: a publication of the miss path of GetPartitionStats never replaces a
\* Table of the current snapshot that is not a pseudo table by a pseudo table,
\* and never removes or takes back the entry of another physical ID that was
\* published after the miss path loaded its snapshot
C21_BenignPseudoRace ==
    [][\A r \in Readers : RdPublishStep(r) => (KeepsRealEntry(r) /\ KeepsLaterEntries(r))]_vars

\* A reader that found no entry for 9 is about to publish: the snapshot it
\* loaded holds column 1 of table 7 without buckets, the current snapshot, of
\* the same version, holds it with the buckets the loader published since
C21_Witness ==
    \E r \in Readers :
        /\ rd[r].pc = "miss"
        /\ rd[r].pid = 9
        /\ rd[r].sc.version = cache.version
        /\ Loaded(r).tables[7].Columns[1].ID = 1
        /\ Loaded(r).tables[7].Columns[1].Buckets = <<>>
        /\ Snapshot.tables[7].Columns[1].Buckets # <<>>

-----------------------------------------------------------------------------
(* C22 *)

\* The return of the second call of the pair
SecondReturns == UpdPublishStep /\ calls.pair = 2

\* The rows of the call for which a read of buckets, sketch or column count
\* was sent and failed: the call read a column or an index again
ReadAgain == {i \in 1 .. Len(upd.log) : upd.log[i].err = "nested"}

\* C22: when Update has returned nil and is called again with the storage, the
\* schema and the lease as they were and nobody else publishing, the second call
\* leaves the snapshot with the same version and the same tables, and reads no
\* column or index again
C22_UpdateIdempotent ==
    [][SecondReturns => (SnapshotAfter = Snapshot /\ ReadAgain = {})]_vars

\* The second call has scanned the row of table 7 again, its query of
\* stats_histograms failed, and it is about to publish without the Table of 7
\* that the snapshot holds
C22_Witness ==
    /\ calls.pair = 2
    /\ upd.pc = "run" /\ upd.rows = <<>>
    /\ \E i \in 1 .. Len(upd.log) : upd.log[i].row.table_id = 7 /\ upd.log[i].err = "query"
    /\ 7 \in upd.deleted
    /\ cache = upd.oldCache
    /\ Snapshot.tables[7].Version = ComposeTS(1, 0)
    /\ ~Snapshot.tables[7].Pseudo
    /\ lease > 0
====
